---- MODULE Spec2Model ----
(***************************************************************************)
(* A model of react-native-body-highlighter: the Body component's render   *)
(* (side buckets, three-way merge, fill priority, draw instructions) and   *)
(* the colour-scale utility getProgressColor.                              *)
(*                                                                         *)
(* JavaScript values are represented as follows.                           *)
(*   - strings are TLA+ strings (Len, SubSeq and \o act on them);          *)
(*   - an optional value `x?: T` is a set with at most one element:        *)
(*     Undefined == {} and Def(v) == {v};                                  *)
(*   - numbers are integers.  Arithmetic on them is exact, where the code  *)
(*     uses IEEE doubles; the quotient of getProgressColor is kept as a    *)
(*     numerator and a denominator so that Math.round is exact as well.    *)
(***************************************************************************)
EXTENDS Integers, Sequences, FiniteSets, TLC

VARIABLES
    data,       \* the caller's entry objects (the `data` prop), as the heap holds them
    supplied,   \* history: the entries as the caller wrote them, before any render
    props,      \* the other props of the latest <Body .../> element
    out,        \* the draw instructions (Path elements) of the latest render
    call        \* the latest call of an exported utility function

vars == <<data, supplied, props, out, call>>

---------------------------------------------------------------------------
(* Optional values.                                                        *)

Undefined == {}

Def(v) == {v}

IsDef(o) == o # {}

Val(o) == CHOOSE v \in o : TRUE

\* a ?? b
Coalesce(o, d) == IF IsDef(o) THEN Val(o) ELSE d

\* truthiness of an optional string: defined and not ''
TruthyStr(o) == IsDef(o) /\ Val(o) # ""

\* truthiness of an optional number: defined and not 0
TruthyNum(o) == IsDef(o) /\ Val(o) # 0

Max(a, b) == IF a >= b THEN a ELSE b

Min(a, b) == IF a <= b THEN a ELSE b

---------------------------------------------------------------------------
(* String primitives.                                                      *)

\* the suffix found anywhere in the string
ContainsText(s, suffix) ==
    \E i \in 1..(Len(s) - Len(suffix) + 1) : SubSeq(s, i, i + Len(suffix) - 1) = suffix

\* s.endsWith(suffix)
EndsWith(s, suffix) ==
    /\ Len(s) >= Len(suffix)
    /\ SubSeq(s, Len(s) - Len(suffix) + 1, Len(s)) = suffix

\* s.slice(0, -n)
DropLast(s, n) == SubSeq(s, 1, Len(s) - n)

\* s.substring(a, b), 0-based, end exclusive
Substring(s, a, b) == SubSeq(s, Min(a, Len(s)) + 1, Min(b, Len(s)))

\* s.replace('#', ''): the first '#' is removed
RemoveHash(s) ==
    LET hits == { i \in 1..Len(s) : SubSeq(s, i, i) = "#" }
    IN  IF hits = {} THEN s
        ELSE LET i == CHOOSE k \in hits : \A j \in hits : k <= j
             IN  SubSeq(s, 1, i - 1) \o SubSeq(s, i + 1, Len(s))

HexDigits == "0123456789abcdef"

HexDigitsUpper == "0123456789ABCDEF"

\* the value of each hexadecimal digit, either case
HexTable ==
    [ ch \in { SubSeq(HexDigits, d, d) : d \in 1..16 }
             \cup { SubSeq(HexDigitsUpper, d, d) : d \in 1..16 } |->
        CHOOSE d \in 0..15 :
            \/ SubSeq(HexDigits, d + 1, d + 1) = ch
            \/ SubSeq(HexDigitsUpper, d + 1, d + 1) = ch ]

HexDigitValue(ch) == HexTable[ch]

\* parseInt(s, 16) of a string of hexadecimal digits
RECURSIVE ParseHex(_)
ParseHex(s) ==
    IF Len(s) = 0 THEN 0
    ELSE 16 * ParseHex(SubSeq(s, 1, Len(s) - 1))
         + HexDigitValue(SubSeq(s, Len(s), Len(s)))

\* n.toString(16) of an integer n: lower-case digits, '-' for a negative n
RECURSIVE NatToString16(_)
NatToString16(n) ==
    IF n < 16 THEN SubSeq(HexDigits, n + 1, n + 1)
    ELSE NatToString16(n \div 16) \o SubSeq(HexDigits, (n % 16) + 1, (n % 16) + 1)

ToString16(n) == IF n < 0 THEN "-" \o NatToString16(0 - n) ELSE NatToString16(n)

\* s.padStart(2, '0')
PadStart2(s) ==
    IF Len(s) >= 2 THEN s
    ELSE IF Len(s) = 1 THEN "0" \o s
    ELSE "00"

---------------------------------------------------------------------------
(* utils/colorScale: the colour scale.                                     *)

Stop(v, c) == [value |-> v, color |-> c]

DEFAULT_PROGRESS_SCALE ==
    [ stops |-> << Stop(-100, "#ef4444"), Stop(-50, "#f87171"), Stop(0, "#9ca3af"),
                   Stop(50, "#4ade80"), Stop(100, "#22c55e") >>,
      interpolation |-> Def("linear") ]

\* a channel that is truncated where the code rounds
TruncatedChannel(c1, c2, num, den) ==
    (c1 * den + (c2 - c1) * num) \div den

\* Math.round(c1 + (c2 - c1) * factor).toString(16).padStart(2, '0') for
\* factor = num / den.  A zero denominator makes the factor +-Infinity (or NaN
\* for 0/0), which Math.round and toString(16) carry through as text.
RoundedChannel(c1, c2, num, den) ==
    \* floor(x + 1/2) for the exact x = c1 + (c2 - c1) * num / den
    (2 * (c1 * den + (c2 - c1) * num) + den) \div (2 * den)

InterpolateChannel(c1, c2, num, den) ==
    IF den = 0
    THEN IF num = 0 \/ c2 = c1 THEN "NaN"
         ELSE IF (num > 0) = (c2 > c1) THEN "Infinity"
         ELSE "-Infinity"
    ELSE PadStart2(ToString16(RoundedChannel(c1, c2, num, den)))

\* the three channels of two colours without their '#', interpolated and joined
InterpolateHex(hex1, hex2, num, den) ==
    "#" \o InterpolateChannel(ParseHex(Substring(hex1, 0, 2)),
                              ParseHex(Substring(hex2, 0, 2)), num, den)
        \o InterpolateChannel(ParseHex(Substring(hex1, 2, 4)),
                              ParseHex(Substring(hex2, 2, 4)), num, den)
        \o InterpolateChannel(ParseHex(Substring(hex1, 4, 6)),
                              ParseHex(Substring(hex2, 4, 6)), num, den)

interpolateColor(color1, color2, num, den) ==
    InterpolateHex(RemoveHash(color1), RemoveHash(color2), num, den)

\* a clamp that forgets the lower end
ClampUpperOnly(value) == Min(100, value)

\* Math.max(-100, Math.min(100, value))
Clamp(value) == Max(-100, Min(100, value))

\* [...stops].sort((a, b) => a.value - b.value): a stable sort by value.  The
\* stop at index i moves to the position that counts the stops before it in the
\* order: those of a smaller value, and those of the same value supplied earlier.
\* Stops that are in order already stay as they are.
SortStops(stops) ==
    LET n       == Len(stops)
        Rank(i) == 1 + Cardinality({ j \in 1..n :
                                       \/ stops[j].value < stops[i].value
                                       \/ stops[j].value = stops[i].value /\ j < i })
    IN  IF \A i \in 1..(n - 1) : stops[i].value <= stops[i + 1].value
        THEN stops
        ELSE [ k \in 1..n |-> stops[CHOOSE i \in 1..n : Rank(i) = k] ]

\* the loop of getProgressColor: the first adjacent pair that brackets the value,
\* else the first and the last stop
Bracket(clampedValue, sortedStops) ==
    LET n    == Len(sortedStops)
        hits == { i \in 1..(n - 1) :
                    /\ clampedValue >= sortedStops[i].value
                    /\ clampedValue <= sortedStops[i + 1].value }
    IN  IF hits = {}
        THEN [lowerStop |-> sortedStops[1], upperStop |-> sortedStops[n]]
        ELSE LET i == CHOOSE k \in hits : \A j \in hits : k <= j
             IN  [lowerStop |-> sortedStops[i], upperStop |-> sortedStops[i + 1]]

\* the returns without the two exact-match returns
ColorBetweenNoExact(clampedValue, lowerStop, upperStop, interpolation) ==
    IF interpolation = Def("step") THEN lowerStop.color
    ELSE interpolateColor(lowerStop.color, upperStop.color,
                          clampedValue - lowerStop.value,
                          upperStop.value - lowerStop.value)

\* step mode returning the upper stop's colour
ColorBetweenStepUpper(clampedValue, lowerStop, upperStop, interpolation) ==
    IF clampedValue = lowerStop.value THEN lowerStop.color
    ELSE IF clampedValue = upperStop.value THEN upperStop.color
    ELSE IF interpolation = Def("step") THEN upperStop.color
    ELSE interpolateColor(lowerStop.color, upperStop.color,
                          clampedValue - lowerStop.value,
                          upperStop.value - lowerStop.value)

\* the returns of getProgressColor, once the two stops are chosen
ColorBetween(clampedValue, lowerStop, upperStop, interpolation) ==
    IF clampedValue = lowerStop.value THEN lowerStop.color
    ELSE IF clampedValue = upperStop.value THEN upperStop.color
    ELSE IF interpolation = Def("step") THEN lowerStop.color
    ELSE interpolateColor(lowerStop.color, upperStop.color,
                          clampedValue - lowerStop.value,
                          upperStop.value - lowerStop.value)

ColorOfBracket(clampedValue, b, interpolation) ==
    ColorBetween(clampedValue, b.lowerStop, b.upperStop, interpolation)

ColorOfClamped(clampedValue, sortedStops, interpolation) ==
    ColorOfBracket(clampedValue, Bracket(clampedValue, sortedStops), interpolation)

getProgressColor(value, scale) ==
    ColorOfClamped(Clamp(value), SortStops(scale.stops), scale.interpolation)

---------------------------------------------------------------------------
(* utils/colorScale: getProgressColor for a number that may not be finite.  *)

\* A JavaScript number as getProgressColor may receive it: a finite integer, or
\* one of the three non-finite values.
Finite(n) == [kind |-> "finite", n |-> n]

NaN == [kind |-> "NaN", n |-> 0]

PosInfinity == [kind |-> "Infinity", n |-> 0]

NegInfinity == [kind |-> "-Infinity", n |-> 0]

\* getProgressColor for any number.  Math.min(100, Infinity) is 100 and
\* Math.max(-100, -Infinity) is -100.  Math.max and Math.min return NaN for NaN:
\* every comparison of the loop and both exact-match tests are then false, so the
\* first and the last sorted stop stay chosen; step mode returns the first stop's
\* colour and in linear mode every channel is Math.round(NaN), whose toString(16)
\* is 'NaN' (three characters, which padStart(2, '0') leaves alone).
getProgressColorOfNumber(value, scale) ==
    IF value.kind = "finite" THEN getProgressColor(value.n, scale)
    ELSE IF value.kind = "Infinity"
    THEN ColorOfClamped(100, SortStops(scale.stops), scale.interpolation)
    ELSE IF value.kind = "-Infinity"
    THEN ColorOfClamped(-100, SortStops(scale.stops), scale.interpolation)
    ELSE IF scale.interpolation = Def("step")
    THEN SortStops(scale.stops)[1].color
    ELSE "#" \o "NaN" \o "NaN" \o "NaN"

----------------------------------------------------------------------------
(* utils/colorScale: the side suffix of a slug.                             *)

parseMuscleSlug(slug) ==
    IF EndsWith(slug, "-left")
    THEN [base |-> DropLast(slug, 5), side |-> Def("left")]
    ELSE IF EndsWith(slug, "-right")
    THEN [base |-> DropLast(slug, 6), side |-> Def("right")]
    ELSE [base |-> slug, side |-> Undefined]

\* a test for the '-left' suffix only
hasSideSuffixLeftOnly(slug) == EndsWith(slug, "-left")

hasSideSuffix(slug) == EndsWith(slug, "-left") \/ EndsWith(slug, "-right")

getBaseMuscle(slug) == parseMuscleSlug(slug).base

---------------------------------------------------------------------------
(* index: the Body component.                                              *)

\* arr.includes(x)
Includes(arr, x) == \E i \in 1..Len(arr) : arr[i] = x

\* arr[i] for a 0-based index i: undefined outside the array
At0(arr, i) == IF i \in 0..(Len(arr) - 1) THEN Def(arr[i + 1]) ELSE Undefined

\* BodyPartProgress
Progress(v, c) == [value |-> v, color |-> c]

\* BodyPartStyles
Styles(fill, stroke, strokeWidth) ==
    [fill |-> fill, stroke |-> stroke, strokeWidth |-> strokeWidth]

\* ExtendedBodyPart: a property that is not set reads as undefined
Part(slug) ==
    [ slug |-> slug, color |-> Undefined,
      path |-> [common |-> <<>>, left |-> <<>>, right |-> <<>>],
      intensity |-> Undefined, progress |-> Undefined, side |-> Undefined,
      styles |-> Undefined ]

\* the props of Body with the defaults of its parameter list
Defaults(p) ==
    LET border          == Coalesce(p.border, "#dfdfdf")
        backgroundColor == Coalesce(p.backgroundColor, "transparent")
        defaultFill     == Coalesce(p.defaultFill, "#f5f5f5")
    IN  [ colors             |-> Coalesce(p.colors, <<"#0984e3", "#74b9ff">>),
          colorScale         |-> Coalesce(p.colorScale, DEFAULT_PROGRESS_SCALE),
          border             |-> border,
          disabledParts      |-> Coalesce(p.disabledParts, <<>>),
          muscleStroke       |-> Coalesce(p.muscleStroke, border),
          hiddenParts        |-> Coalesce(p.hiddenParts, <<>>),
          backgroundColor    |-> backgroundColor,
          defaultFill        |-> defaultFill,
          skinColor          |-> Coalesce(p.skinColor, defaultFill),
          hairColor          |-> Coalesce(p.hairColor, backgroundColor),
          defaultStroke      |-> Coalesce(p.defaultStroke, "none"),
          defaultStrokeWidth |-> Coalesce(p.defaultStrokeWidth, 0) ]

\* bodyPart.styles?.fill and its siblings
StyleFill(bodyPart) ==
    IF IsDef(bodyPart.styles) THEN Val(bodyPart.styles).fill ELSE Undefined

StyleStroke(bodyPart) ==
    IF IsDef(bodyPart.styles) THEN Val(bodyPart.styles).stroke ELSE Undefined

StyleStrokeWidth(bodyPart) ==
    IF IsDef(bodyPart.styles) THEN Val(bodyPart.styles).strokeWidth ELSE Undefined

getPartStyles(bodyPart, cfg) ==
    [ fill        |-> Coalesce(StyleFill(bodyPart), cfg.defaultFill),
      stroke      |-> Coalesce(StyleStroke(bodyPart), cfg.muscleStroke),
      strokeWidth |-> Coalesce(StyleStrokeWidth(bodyPart), cfg.defaultStrokeWidth) ]

EmptyBucket == [both |-> Undefined, left |-> Undefined, right |-> Undefined]

\* One bucket slot: the normalized copy of a user entry.  The copy is shallow, so
\* its progress record is the caller's own object: ref names the entry of data
\* that owns it.
Normalized(ref, userPart, base, effectiveSide) ==
    [ ref |-> ref,
      part |-> [userPart EXCEPT !.slug = Def(base), !.side = Def(effectiveSide)] ]

\* a slot that keeps the first entry written to it
FillSlotKeepFirst(bucket, effectiveSide, normalized) ==
    IF effectiveSide = "left"
    THEN IF IsDef(bucket.left) THEN bucket ELSE [bucket EXCEPT !.left = Def(normalized)]
    ELSE IF effectiveSide = "right"
    THEN IF IsDef(bucket.right) THEN bucket ELSE [bucket EXCEPT !.right = Def(normalized)]
    ELSE IF IsDef(bucket.both) THEN bucket ELSE [bucket EXCEPT !.both = Def(normalized)]

\* one entry per base slug, whatever its side (the map of the earlier revision)
FillSlotShared(bucket, effectiveSide, normalized) ==
    [bucket EXCEPT !.both = Def(normalized)]

\* bucket.left = normalized, bucket.right = normalized or bucket.both = normalized
FillSlot(bucket, effectiveSide, normalized) ==
    IF effectiveSide = "left" THEN [bucket EXCEPT !.left = Def(normalized)]
    ELSE IF effectiveSide = "right" THEN [bucket EXCEPT !.right = Def(normalized)]
    ELSE [bucket EXCEPT !.both = Def(normalized)]

\* map.set(base, bucket)
MapSet(map, base, bucket) ==
    [ b \in (DOMAIN map) \cup {base} |-> IF b = base THEN bucket ELSE map[b] ]

\* map.get(base) ?? {}
MapGetOrEmpty(map, base) == IF base \in DOMAIN map THEN map[base] ELSE EmptyBucket

PutParsed(map, ref, userPart, base, effectiveSide) ==
    MapSet(map, base,
           FillSlot(MapGetOrEmpty(map, base), effectiveSide,
                    Normalized(ref, userPart, base, effectiveSide)))

\* the explicit side field taking precedence over the suffix
PutWithSideFieldFirst(map, ref, userPart, parsed) ==
    PutParsed(map, ref, userPart, parsed.base,
              Coalesce(userPart.side, Coalesce(parsed.side, "both")))

\* effectiveSide = suffixSide ?? userPart.side ?? 'both'
PutWithSuffix(map, ref, userPart, parsed) ==
    PutParsed(map, ref, userPart, parsed.base,
              Coalesce(parsed.side, Coalesce(userPart.side, "both")))

\* the callback of data.forEach in userDataByBaseSlug, for the entry at index ref
PutEntry(map, ref, userPart) ==
    IF ~TruthyStr(userPart.slug) THEN map
    ELSE PutWithSuffix(map, ref, userPart, parseMuscleSlug(Val(userPart.slug)))

\* data.forEach over the first n entries: the Map from base slug to bucket
RECURSIVE BucketsUpTo(_, _)
BucketsUpTo(entries, n) ==
    IF n = 0 THEN [b \in {} |-> EmptyBucket]
    ELSE PutEntry(BucketsUpTo(entries, n - 1), n, entries[n])

userDataByBaseSlug(entries) == BucketsUpTo(entries, Len(entries))

\* userDataByBaseSlug.get(slug)
BucketOf(map, slug) == IF slug \in DOMAIN map THEN map[slug] ELSE EmptyBucket

\* merged.progress.color = getProgressColor(...): the write goes to the progress
\* record itself, when it has a value and no (truthy) colour yet
AttachProgressColor(progress, cfg) ==
    IF IsDef(progress) /\ ~TruthyStr(Val(progress).color)
    THEN Def([Val(progress) EXCEPT
                 !.color = Def(getProgressColor(Val(progress).value, cfg.colorScale))])
    ELSE progress

\* merged.color = colors[merged.intensity - 1], under its condition
AutoColor(merged, cfg) ==
    IF /\ ~TruthyStr(StyleFill(merged))
       /\ ~TruthyStr(merged.color)
       /\ TruthyNum(merged.intensity)
    THEN [merged EXCEPT !.color = At0(cfg.colors, Val(merged.intensity) - 1)]
    ELSE merged

\* the merged object with the four fields of the user entry laid over the asset's
Overlay(assetPart, userPart) ==
    [assetPart EXCEPT !.styles = userPart.styles,
                      !.intensity = userPart.intensity,
                      !.progress = userPart.progress,
                      !.color = userPart.color]

WithProgressColor(merged, cfg) ==
    [merged EXCEPT !.progress = AttachProgressColor(merged.progress, cfg)]

\* slot is a bucket slot (or undefined)
mergeAssetWithUserData(assetPart, slot, cfg) ==
    IF ~IsDef(slot) THEN assetPart
    ELSE WithProgressColor(AutoColor(Overlay(assetPart, Val(slot).part), cfg), cfg)

DISABLED_FILL == "#EBEBE4"

skinParts == <<"hands", "feet", "head">>

\* the priority with the direct colour ahead of styles.fill
getColorToFillColorFirst(bodyPart, cfg) ==
    IF TruthyStr(bodyPart.slug) /\ Includes(cfg.disabledParts, Val(bodyPart.slug))
    THEN Def(DISABLED_FILL)
    ELSE IF bodyPart.slug = Def("hair") THEN Def(cfg.hairColor)
    ELSE IF TruthyStr(bodyPart.slug) /\ Includes(skinParts, Val(bodyPart.slug))
    THEN Def(cfg.skinColor)
    ELSE IF TruthyStr(bodyPart.color) THEN bodyPart.color
    ELSE IF TruthyStr(StyleFill(bodyPart)) THEN StyleFill(bodyPart)
    ELSE IF TruthyNum(bodyPart.intensity) /\ Val(bodyPart.intensity) > 0
    THEN At0(cfg.colors, Val(bodyPart.intensity) - 1)
    ELSE IF IsDef(bodyPart.progress)
    THEN Def(getProgressColor(Val(bodyPart.progress).value, cfg.colorScale))
    ELSE Undefined

\* the priority with the disabled test behind the explicit styles.fill
getColorToFillStyleFirst(bodyPart, cfg) ==
    IF TruthyStr(StyleFill(bodyPart)) THEN StyleFill(bodyPart)
    ELSE IF TruthyStr(bodyPart.slug) /\ Includes(cfg.disabledParts, Val(bodyPart.slug))
    THEN Def(DISABLED_FILL)
    ELSE IF bodyPart.slug = Def("hair") THEN Def(cfg.hairColor)
    ELSE IF TruthyStr(bodyPart.slug) /\ Includes(skinParts, Val(bodyPart.slug))
    THEN Def(cfg.skinColor)
    ELSE IF TruthyStr(bodyPart.color) THEN bodyPart.color
    ELSE IF TruthyNum(bodyPart.intensity) /\ Val(bodyPart.intensity) > 0
    THEN At0(cfg.colors, Val(bodyPart.intensity) - 1)
    ELSE IF IsDef(bodyPart.progress)
    THEN Def(getProgressColor(Val(bodyPart.progress).value, cfg.colorScale))
    ELSE Undefined

getColorToFill(bodyPart, cfg) ==
    IF TruthyStr(bodyPart.slug) /\ Includes(cfg.disabledParts, Val(bodyPart.slug))
    THEN Def(DISABLED_FILL)
    ELSE IF bodyPart.slug = Def("hair") THEN Def(cfg.hairColor)
    ELSE IF TruthyStr(bodyPart.slug) /\ Includes(skinParts, Val(bodyPart.slug))
    THEN Def(cfg.skinColor)
    ELSE IF TruthyStr(StyleFill(bodyPart)) THEN StyleFill(bodyPart)
    ELSE IF TruthyStr(bodyPart.color) THEN bodyPart.color
    ELSE IF TruthyNum(bodyPart.intensity) /\ Val(bodyPart.intensity) > 0
    THEN At0(cfg.colors, Val(bodyPart.intensity) - 1)
    ELSE IF IsDef(bodyPart.progress)
    THEN Def(getProgressColor(Val(bodyPart.progress).value, cfg.colorScale))
    ELSE Undefined

\* no part is ever disabled
isPartDisabledNever(slug, cfg) == FALSE

\* slug !== undefined && disabledParts.includes(slug)
isPartDisabled(slug, cfg) == IsDef(slug) /\ Includes(cfg.disabledParts, Val(slug))

\* One <Path/>: group is the path group it was drawn from.  onPress is undefined
\* for a disabled part, else the arguments the callback would be given.
PathElement(slug, group, d, merged, fill, styles, disabled) ==
    [ id          |-> slug,
      group       |-> group,
      d           |-> d,
      fill        |-> Coalesce(fill, styles.fill),
      stroke      |-> styles.stroke,
      strokeWidth |-> styles.strokeWidth,
      onPress     |-> IF disabled THEN Undefined
                      ELSE Def([part |-> merged,
                                side |-> IF group = "common" THEN Undefined
                                         ELSE Def(group)]) ]

\* the Path elements of one path group
PathsOfGroup(slug, group, paths, merged, fill, styles, disabled) ==
    [ k \in 1..Len(paths) |->
        PathElement(slug, group, paths[k], merged, fill, styles, disabled) ]

\* the side paths emitted before the common paths
RenderVariantsSidesFirst(assetPart, disabled, mergedBoth, mergedLeft, mergedRight, cfg) ==
    PathsOfGroup(assetPart.slug, "left", assetPart.path.left, mergedLeft,
                 getColorToFill(mergedLeft, cfg), getPartStyles(mergedLeft, cfg), disabled)
    \o PathsOfGroup(assetPart.slug, "right", assetPart.path.right, mergedRight,
                    getColorToFill(mergedRight, cfg), getPartStyles(mergedRight, cfg), disabled)
    \o PathsOfGroup(assetPart.slug, "common", assetPart.path.common, mergedBoth,
                    getColorToFill(mergedBoth, cfg), getPartStyles(mergedBoth, cfg), disabled)

RenderVariants(assetPart, disabled, mergedBoth, mergedLeft, mergedRight, cfg) ==
    PathsOfGroup(assetPart.slug, "common", assetPart.path.common, mergedBoth,
                 getColorToFill(mergedBoth, cfg), getPartStyles(mergedBoth, cfg), disabled)
    \o PathsOfGroup(assetPart.slug, "left", assetPart.path.left, mergedLeft,
                    getColorToFill(mergedLeft, cfg), getPartStyles(mergedLeft, cfg), disabled)
    \o PathsOfGroup(assetPart.slug, "right", assetPart.path.right, mergedRight,
                    getColorToFill(mergedRight, cfg), getPartStyles(mergedRight, cfg), disabled)

\* both side variants merged from the left slot
RenderSidesLeftTwice(assetPart, disabled, bucket, mergedBoth, cfg) ==
    RenderVariants(assetPart, disabled, mergedBoth,
                   mergeAssetWithUserData(mergedBoth, bucket.left, cfg),
                   mergeAssetWithUserData(mergedBoth, bucket.left, cfg), cfg)

\* mergedLeft and mergedRight are both merged from mergedBoth
RenderSides(assetPart, disabled, bucket, mergedBoth, cfg) ==
    RenderVariants(assetPart, disabled, mergedBoth,
                   mergeAssetWithUserData(mergedBoth, bucket.left, cfg),
                   mergeAssetWithUserData(mergedBoth, bucket.right, cfg), cfg)

RenderBucket(assetPart, bucket, cfg) ==
    RenderSides(assetPart, isPartDisabled(assetPart.slug, cfg), bucket,
                mergeAssetWithUserData(assetPart, bucket.both, cfg), cfg)

\* the body of filteredBodyToRender.map for one asset
RenderPart(assetPart, map, cfg) ==
    RenderBucket(assetPart,
                 IF TruthyStr(assetPart.slug) THEN BucketOf(map, Val(assetPart.slug))
                 ELSE EmptyBucket,
                 cfg)

\* no filter at all
FilterNothing(bodyToRender, cfg) == bodyToRender

\* bodyToRender.filter((part) => !hiddenParts.includes(part.slug))
RECURSIVE FilterHidden(_, _)
FilterHidden(bodyToRender, cfg) ==
    IF bodyToRender = <<>> THEN <<>>
    ELSE LET part == Head(bodyToRender)
             rest == FilterHidden(Tail(bodyToRender), cfg)
         IN  IF IsDef(part.slug) /\ Includes(cfg.hiddenParts, Val(part.slug))
             THEN rest
             ELSE <<part>> \o rest

RECURSIVE RenderParts(_, _, _)
RenderParts(parts, map, cfg) ==
    IF parts = <<>> THEN <<>>
    ELSE RenderPart(Head(parts), map, cfg) \o RenderParts(Tail(parts), map, cfg)

\* The entries of data a render merges: those a bucket slot of a rendered asset
\* refers to.
MergedRefs(parts, map, n) ==
    { r \in 1..n :
        \E k \in 1..Len(parts) :
            /\ TruthyStr(parts[k].slug)
            /\ \E slot \in { BucketOf(map, Val(parts[k].slug)).both,
                             BucketOf(map, Val(parts[k].slug)).left,
                             BucketOf(map, Val(parts[k].slug)).right } :
                   IsDef(slot) /\ Val(slot).ref = r }

\* The caller's entries after a render: the progress record of every merged entry
\* has had its colour attached.
AttachAt(entries, refs, cfg) ==
    [ r \in 1..Len(entries) |->
        IF r \in refs
        THEN [entries[r] EXCEPT !.progress = AttachProgressColor(entries[r].progress, cfg)]
        ELSE entries[r] ]

\* the Path elements of the assets that are left after the filter, and the
\* caller's entries as the merges leave them
RenderFiltered(filteredBodyToRender, map, entries, cfg) ==
    [ paths |-> RenderParts(filteredBodyToRender, map, cfg),
      heap  |-> AttachAt(entries,
                         MergedRefs(filteredBodyToRender, map, Len(entries)), cfg) ]

renderBodySvg(bodyToRender, entries, cfg) ==
    RenderFiltered(FilterHidden(bodyToRender, cfg), userDataByBaseSlug(entries),
                   entries, cfg)

---------------------------------------------------------------------------
(* utils/validation: the slugs.                                            *)

VALID_BASE_SLUGS ==
    << "abs", "adductors", "ankles", "biceps", "calves", "chest", "deltoids",
       "feet", "forearm", "gluteal", "hamstring", "hands", "hair", "head",
       "knees", "lower-back", "neck", "obliques", "quadriceps", "tibialis",
       "trapezius", "triceps", "upper-back" >>

VALID_BILATERAL_BASE_SLUGS ==
    << "biceps", "calves", "deltoids", "forearm", "gluteal", "hamstring",
       "quadriceps", "triceps" >>

\* a suffixed slug accepted for every base slug
isValidSlugAnyBase(slug) ==
    IF Includes(VALID_BASE_SLUGS, slug) THEN TRUE
    ELSE IF EndsWith(slug, "-left")
    THEN Includes(VALID_BASE_SLUGS, DropLast(slug, 5))
    ELSE IF EndsWith(slug, "-right")
    THEN Includes(VALID_BASE_SLUGS, DropLast(slug, 6))
    ELSE FALSE

isValidSlug(slug) ==
    IF Includes(VALID_BASE_SLUGS, slug) THEN TRUE
    ELSE IF EndsWith(slug, "-left")
    THEN Includes(VALID_BILATERAL_BASE_SLUGS, DropLast(slug, 5))
    ELSE IF EndsWith(slug, "-right")
    THEN Includes(VALID_BILATERAL_BASE_SLUGS, DropLast(slug, 6))
    ELSE FALSE

----------------------------------------------------------------------------
(* Values the validators may meet at run time, whatever the types say.      *)

\* A value that should be an array: an array of items, null, or some other
\* value that is no array (an object, a number).
JsArray(items) == [isArray |-> TRUE, isNull |-> FALSE, items |-> items]

JsNull == [isArray |-> FALSE, isNull |-> TRUE, items |-> <<>>]

JsOther == [isArray |-> FALSE, isNull |-> FALSE, items |-> <<>>]

\* a number with a fractional part: n + 1/2
HalfAbove(n) == [kind |-> "half", n |-> n]

\* x < k, x > k for a number x and an integer k; both are false for NaN
NumLess(x, k) ==
    IF x.kind \in {"finite", "half"} THEN x.n < k
    ELSE x.kind = "-Infinity"

NumGreater(x, k) ==
    IF x.kind = "finite" THEN x.n > k
    ELSE IF x.kind = "half" THEN x.n >= k
    ELSE x.kind = "Infinity"

\* Number.isInteger(x), Number.isFinite(x)
IsInteger(x) == x.kind = "finite"

IsFiniteNumber(x) == x.kind \in {"finite", "half"}

\* one console.warn or console.error
Diag(level, text) == [level |-> level, text |-> text]

\* the diagnostic when the condition holds in a development build
DiagIf(cond, level, text) == IF cond THEN << Diag(level, text) >> ELSE << >>

----------------------------------------------------------------------------
(* utils/colorScale: validateColorScale.  __DEV__ is the argument dev.      *)

\* the range warning given only when the stops are neither negative nor positive
validateColorScaleWarnNeither(scale, dev) ==
    IF scale = Undefined \/ ~Val(scale).stops.isArray
    THEN [ ret |-> FALSE,
           log |-> DiagIf(dev, "error", "ColorScale must have a stops array") ]
    ELSE IF Len(Val(scale).stops.items) < 2
    THEN [ ret |-> FALSE,
           log |-> DiagIf(dev, "error", "ColorScale must have at least 2 stops") ]
    ELSE LET stops       == Val(scale).stops.items
             hasNegative == \E i \in 1..Len(stops) : stops[i].value < 0
             hasPositive == \E i \in 1..Len(stops) : stops[i].value > 0
         IN  [ ret |-> TRUE,
               log |-> DiagIf((~hasNegative /\ ~hasPositive) /\ dev, "warn",
                              "ColorScale should span negative to positive values") ]

validateColorScale(scale, dev) ==
    IF scale = Undefined \/ ~Val(scale).stops.isArray
    THEN [ ret |-> FALSE,
           log |-> DiagIf(dev, "error", "ColorScale must have a stops array") ]
    ELSE IF Len(Val(scale).stops.items) < 2
    THEN [ ret |-> FALSE,
           log |-> DiagIf(dev, "error", "ColorScale must have at least 2 stops") ]
    ELSE LET stops       == Val(scale).stops.items
             hasNegative == \E i \in 1..Len(stops) : stops[i].value < 0
             hasPositive == \E i \in 1..Len(stops) : stops[i].value > 0
         IN  [ ret |-> TRUE,
               log |-> DiagIf((~hasNegative \/ ~hasPositive) /\ dev, "warn",
                              "ColorScale should span negative to positive values") ]

----------------------------------------------------------------------------
(* utils/validation: the validators.  __DEV__ is the argument dev.         *)

\* the part validateBodyPart reads: its numbers may be fractional or not finite
ValidatedPart(slug, intensity, progress, side, styles) ==
    [ slug |-> slug, intensity |-> intensity, progress |-> progress,
      side |-> side, styles |-> styles ]

\* part.intensity > colorsLength; colorsLength is undefined when the palette has
\* no length, and no number is greater than undefined
AboveLength(x, colorsLength) == IsDef(colorsLength) /\ NumGreater(x, Val(colorsLength))

validateBodyPart(part, colorsLength, dev) ==
    IF ~dev THEN << >>
    ELSE DiagIf(TruthyStr(part.slug) /\ ~isValidSlug(Val(part.slug)),
                "warn", "Invalid slug")
         \o DiagIf(/\ IsDef(part.intensity)
                   /\ \/ NumLess(Val(part.intensity), 1)
                      \/ AboveLength(Val(part.intensity), colorsLength),
                   "warn", "Invalid intensity")
         \o DiagIf(IsDef(part.intensity) /\ ~IsInteger(Val(part.intensity)),
                   "warn", "Intensity must be an integer")
         \o DiagIf(/\ IsDef(part.progress)
                   /\ IsDef(Val(part.progress).value)
                   /\ \/ NumLess(Val(Val(part.progress).value), -100)
                      \/ NumGreater(Val(Val(part.progress).value), 100),
                   "warn", "Invalid progress value")
         \o DiagIf(/\ IsDef(part.progress)
                   /\ IsDef(Val(part.progress).value)
                   /\ ~IsFiniteNumber(Val(Val(part.progress).value)),
                   "warn", "Progress value must be a finite number")
         \o DiagIf(TruthyStr(part.side) /\ Val(part.side) \notin {"left", "right", "both"},
                   "warn", "Invalid side")
         \o DiagIf(/\ IsDef(part.styles)
                   /\ IsDef(Val(part.styles).strokeWidth)
                   /\ NumLess(Val(Val(part.styles).strokeWidth), 0),
                   "warn", "Invalid strokeWidth")

\* data.forEach of validateData over the first n items; an item that is null or
\* no object is Undefined here
RECURSIVE ValidateItems(_, _, _)
ValidateItems(items, n, colorsLength) ==
    IF n = 0 THEN << >>
    ELSE ValidateItems(items, n - 1, colorsLength)
         \o ( IF items[n] = Undefined
              THEN << Diag("warn", "Invalid data item") >>
              ELSE validateBodyPart(Val(items[n]), colorsLength, TRUE) )

validateData(dataProp, colorsLength, dev) ==
    IF ~dev THEN << >>
    ELSE IF ~dataProp.isArray THEN << Diag("error", "data prop must be an array") >>
    ELSE ValidateItems(dataProp.items, Len(dataProp.items), colorsLength)

\* colors.forEach of validateColors; a colour that is no string is Undefined here
RECURSIVE ValidateColorItems(_, _)
ValidateColorItems(items, n) ==
    IF n = 0 THEN << >>
    ELSE ValidateColorItems(items, n - 1)
         \o DiagIf(items[n] = Undefined, "warn", "Color must be a string")

validateColors(colors, dev) ==
    IF ~dev THEN << >>
    ELSE IF ~colors.isArray THEN << Diag("error", "colors prop must be an array") >>
    ELSE DiagIf(Len(colors.items) = 0, "warn", "colors array is empty")
         \o ValidateColorItems(colors.items, Len(colors.items))

warnDeprecatedAPI(apiName, replacement, dev) ==
    IF ~dev THEN << >>
    ELSE << Diag("warn", apiName \o " is deprecated, use " \o replacement) >>

----------------------------------------------------------------------------
(* Bounds of the model and the inputs drawn within them.                   *)

\* progress values range over -MaxValue..MaxValue (beyond the clamp range)
MaxValue == 151

\* a scale of the utility specification has 2..MaxStops stops
MaxStops == 3

Values == (0 - MaxValue)..MaxValue

\* stops the scales are built from: in any order, with a repeated value (0) and a
\* value beyond the clamp range (150); one colour is written in upper case
StopPool ==
    { Stop(-100, "#ef4444"), Stop(0, "#9CA3AF"), Stop(0, "#ffffff"),
      Stop(150, "#22c55e") }

\* the custom scale of the README and of the tests
README_SCALE ==
    [ stops |-> << Stop(-100, "#ff0000"), Stop(0, "#ffffff"), Stop(100, "#00ff00") >>,
      interpolation |-> Def("linear") ]

StopSeqs == UNION { [1..n -> StopPool] : n \in 2..MaxStops }

Scales ==
    { [stops |-> s, interpolation |-> m] : s \in StopSeqs, m \in {Def("linear"), Def("step")} }
    \cup { DEFAULT_PROGRESS_SCALE, README_SCALE,
           [README_SCALE EXCEPT !.interpolation = Def("step")],
           [DEFAULT_PROGRESS_SCALE EXCEPT !.interpolation = Undefined] }

---------------------------------------------------------------------------
(* Inputs of the component specification.                                  *)

\* the caller's data holds at most MaxData entries
MaxData == 2

\* The static assets of one view.  A path string stands for its geometry.  The
\* BodyPart type lets an asset carry a colour: chest does, the others do not.
Asset(slug, color, common, left, right) ==
    [ Part(Def(slug)) EXCEPT !.color = color,
                             !.path = [common |-> common, left |-> left, right |-> right] ]

bodyFront ==
    << Asset("hair", Undefined, <<"M-hair">>, <<>>, <<>>),
       Asset("head", Undefined, <<"M-head">>, <<>>, <<>>),
       Asset("chest", Def("#3f3f3f"), <<"M-chest">>, <<"M-chest-l">>, <<"M-chest-r">>),
       Asset("biceps", Undefined, <<"M-biceps">>, <<"M-biceps-l">>, <<"M-biceps-r">>) >>

\* a user entry: ExtendedBodyPart as the caller writes it
Entry(slug, side, styles, color, intensity, progress) ==
    [ Part(slug) EXCEPT !.side = side, !.styles = styles, !.color = color,
                        !.intensity = intensity, !.progress = progress ]

EntryPool ==
    { Entry(Def("biceps-left"), Undefined, Undefined, Undefined, Undefined,
            Def(Progress(80, Undefined))),
      Entry(Def("biceps-right"), Undefined, Undefined, Undefined, Undefined,
            Def(Progress(-80, Undefined))),
      Entry(Def("biceps"), Def("right"),
            Def(Styles(Def("#fdcb6e"), Def("#2d3436"), Def(2))), Def("#00b894"), Def(2),
            Def(Progress(25, Undefined))),
      Entry(Def("biceps"), Undefined, Undefined, Undefined, Def(1), Undefined),
      Entry(Def("chest"), Undefined, Undefined, Undefined, Undefined,
            Def(Progress(50, Def("#22c55e")))),
      Entry(Def("chest"), Def("left"), Undefined, Undefined, Def(3),
            Def(Progress(0, Undefined))),
      Entry(Def("biceps-left"), Undefined, Undefined, Undefined, Def(0),
            Def(Progress(200, Undefined))),
      Entry(Def("hair"), Undefined,
            Def(Styles(Def("#fdcb6e"), Undefined, Undefined)), Undefined, Undefined,
            Def(Progress(80, Undefined))) }

\* props the caller varies; a prop that is Undefined is not passed
ScaleChoices == { Undefined, Def(README_SCALE) }

DisabledChoices == { Undefined, Def(<<"biceps", "hair">>) }

HiddenChoices == { Undefined, Def(<<"chest", "head">>) }

\* no utility call has been made
NoCall == [fn |-> "none"]

\* <Body data={[]} /> : every other prop left out
NoProps ==
    [ colors |-> Undefined, colorScale |-> Undefined, progressScale |-> Undefined,
      border |-> Undefined, disabledParts |-> Undefined, muscleStroke |-> Undefined,
      hiddenParts |-> Undefined, backgroundColor |-> Undefined, defaultFill |-> Undefined,
      skinColor |-> Undefined, hairColor |-> Undefined, defaultStroke |-> Undefined,
      defaultStrokeWidth |-> Undefined ]

---------------------------------------------------------------------------
(* The component specification: the caller re-renders Body with new props. *)

\* Body(props) with data = entries: the Path elements, and the caller's entries
\* as the render leaves them
BodyWith(entries, cfg) == renderBodySvg(bodyFront, entries, cfg)

Body(entries, p) == BodyWith(entries, Defaults(p))

RerenderTo(rendered, p) ==
    /\ out' = rendered.paths
    /\ data' = rendered.heap
    /\ props' = p
    /\ call' = call

\* the render that follows every change of the props
Rerender(entries, p) == RerenderTo(Body(entries, p), p)

Init ==
    /\ supplied = <<>>
    /\ props = NoProps
    /\ data = Body(<<>>, NoProps).heap
    /\ out = Body(<<>>, NoProps).paths
    /\ call = NoCall

\* setData([...data, e]): a new array of the old entry objects and a new one
AppendEntry(e) ==
    /\ Len(data) < MaxData
    /\ supplied' = Append(supplied, e)
    /\ Rerender(Append(data, e), props)

\* the bucket slot an entry goes to: its base slug and effective side
Target(e) ==
    IF ~TruthyStr(e.slug) THEN <<>>
    ELSE << parseMuscleSlug(Val(e.slug)).base,
            Coalesce(parseMuscleSlug(Val(e.slug)).side, Coalesce(e.side, "both")) >>

\* setData(data.map(...)): entry i is replaced by a new object for the same
\* muscle and side
UpdateEntry(i, e) ==
    /\ i \in 1..Len(data)
    /\ supplied[i] # e
    /\ Target(e) = Target(supplied[i])
    /\ supplied' = [supplied EXCEPT ![i] = e]
    /\ Rerender([data EXCEPT ![i] = e], props)

\* the caller starts to pass a prop it had left out
SetColorScale(sc) ==
    /\ props.colorScale = Undefined
    /\ IsDef(sc)
    /\ supplied' = supplied
    /\ Rerender(data, [props EXCEPT !.colorScale = sc])

SetProgressScale(sc) ==
    /\ props.progressScale = Undefined
    /\ IsDef(sc)
    /\ supplied' = supplied
    /\ Rerender(data, [props EXCEPT !.progressScale = sc])

SetDisabledParts(d) ==
    /\ props.disabledParts = Undefined
    /\ IsDef(d)
    /\ supplied' = supplied
    /\ Rerender(data, [props EXCEPT !.disabledParts = d])

SetHiddenParts(h) ==
    /\ props.hiddenParts = Undefined
    /\ IsDef(h)
    /\ supplied' = supplied
    /\ Rerender(data, [props EXCEPT !.hiddenParts = h])

Next ==
    \/ \E e \in EntryPool : AppendEntry(e)
    \/ \E i \in 1..MaxData, e \in EntryPool : UpdateEntry(i, e)
    \/ \E sc \in ScaleChoices : SetColorScale(sc)
    \/ \E sc \in ScaleChoices : SetProgressScale(sc)
    \/ \E d \in DisabledChoices : SetDisabledParts(d)
    \/ \E h \in HiddenChoices : SetHiddenParts(h)

Spec == Init /\ [][Next]_vars

---------------------------------------------------------------------------
(* The utility specification: one call of getProgressColor on drawn inputs. *)

ScaleInit ==
    /\ data = <<>>
    /\ supplied = <<>>
    /\ props = NoProps
    /\ out = <<>>
    /\ call \in { [fn |-> "getProgressColor", value |-> v, scale |-> s, result |-> Undefined] :
                    v \in Values, s \in Scales }

\* getProgressColor(value, scale) runs to completion
GetProgressColorCall ==
    /\ call.fn = "getProgressColor"
    /\ call.result = Undefined
    /\ call' = [call EXCEPT !.result = Def(getProgressColor(call.value, call.scale))]
    /\ UNCHANGED <<data, supplied, props, out>>

ScaleNext == GetProgressColorCall

ScaleSpec == ScaleInit /\ [][ScaleNext]_vars

Returned == call.fn = "getProgressColor" /\ IsDef(call.result)

\* getProgressColor called with any number, a non-finite one included
NumberInit ==
    /\ data = <<>>
    /\ supplied = <<>>
    /\ props = NoProps
    /\ out = <<>>
    /\ call \in { [fn |-> "getProgressColor", number |-> x, scale |-> s, result |-> Undefined] :
                    x \in { Finite(v) : v \in Values } \cup { NaN, PosInfinity, NegInfinity },
                    s \in Scales }

GetProgressColorOfNumberCall ==
    /\ call.fn = "getProgressColor"
    /\ call.result = Undefined
    /\ call' = [call EXCEPT !.result = Def(getProgressColorOfNumber(call.number, call.scale))]
    /\ UNCHANGED <<data, supplied, props, out>>

NumberNext == GetProgressColorOfNumberCall

NumberSpec == NumberInit /\ [][NumberNext]_vars

----------------------------------------------------------------------------
(* The slug specification: one call of parseMuscleSlug, hasSideSuffix,      *)
(* getBaseMuscle or isValidSlug.                                           *)

\* the slugs of the calls: a stem (every base slug, the empty string, text that
\* is no slug) followed by nothing, by a side suffix, or by text that holds a
\* side suffix without ending in it
SlugStrings ==
    { stem \o tail :
        stem \in { VALID_BASE_SLUGS[i] : i \in 1..Len(VALID_BASE_SLUGS) }
                 \cup { "", "left-bicep", "invalid slug", "invalid@slug", "bicep",
                        "-left", "-right" },
        tail \in { "", "-left", "-right", "-left-", "-right-back", "-left-right",
                   "-lef", "left" } }

SlugInit ==
    /\ data = <<>>
    /\ supplied = <<>>
    /\ props = NoProps
    /\ out = <<>>
    /\ call \in { [fn |-> f, slug |-> s, result |-> Undefined] :
                    f \in {"parseMuscleSlug", "hasSideSuffix", "getBaseMuscle",
                           "isValidSlug"},
                    s \in SlugStrings }

ParseMuscleSlugCall ==
    /\ call.fn = "parseMuscleSlug"
    /\ call.result = Undefined
    /\ call' = [call EXCEPT !.result = Def(parseMuscleSlug(call.slug))]
    /\ UNCHANGED <<data, supplied, props, out>>

IsValidSlugCall ==
    /\ call.fn = "isValidSlug"
    /\ call.result = Undefined
    /\ call' = [call EXCEPT !.result = Def(isValidSlug(call.slug))]
    /\ UNCHANGED <<data, supplied, props, out>>

HasSideSuffixCall ==
    /\ call.fn = "hasSideSuffix"
    /\ call.result = Undefined
    /\ call' = [call EXCEPT !.result = Def(hasSideSuffix(call.slug))]
    /\ UNCHANGED <<data, supplied, props, out>>

GetBaseMuscleCall ==
    /\ call.fn = "getBaseMuscle"
    /\ call.result = Undefined
    /\ call' = [call EXCEPT !.result = Def(getBaseMuscle(call.slug))]
    /\ UNCHANGED <<data, supplied, props, out>>

SlugNext ==
    \/ ParseMuscleSlugCall
    \/ HasSideSuffixCall
    \/ GetBaseMuscleCall
    \/ IsValidSlugCall

SlugSpec == SlugInit /\ [][SlugNext]_vars

----------------------------------------------------------------------------
(* The bucket specification: userDataByBaseSlug computed for one data array. *)

MaxBucketData == 2

\* entries that differ in their slug and their side field only: no slug, an empty
\* one, a base slug, a suffixed slug, and a slug with a hyphen that is no suffix
BucketEntryPool ==
    { Entry(slug, side, Undefined, Undefined, Undefined, Undefined) :
        slug \in { Undefined, Def(""), Def("biceps"), Def("biceps-left"),
                   Def("biceps-right"), Def("lower-back") },
        side \in { Undefined, Def("left"), Def("right"), Def("both") } }

BucketInit ==
    /\ data = <<>>
    /\ supplied = <<>>
    /\ props = NoProps
    /\ out = <<>>
    /\ call \in { [fn |-> "userDataByBaseSlug", data |-> d, result |-> Undefined] :
                    d \in UNION { [1..n -> BucketEntryPool] : n \in 0..MaxBucketData } }

UserDataByBaseSlugCall ==
    /\ call.fn = "userDataByBaseSlug"
    /\ call.result = Undefined
    /\ call' = [call EXCEPT !.result = Def(userDataByBaseSlug(call.data))]
    /\ UNCHANGED <<data, supplied, props, out>>

BucketNext == UserDataByBaseSlugCall

BucketSpec == BucketInit /\ [][BucketNext]_vars

----------------------------------------------------------------------------
(* index: the render of Body in a build with or without __DEV__, for a data *)
(* prop and a colors prop that need not be arrays.                          *)

\* the numbers of a user entry as the validators read them
AsNumber(o) == IF IsDef(o) THEN Def(Finite(Val(o))) ELSE Undefined

AsValidatedPart(e) ==
    ValidatedPart(e.slug, AsNumber(e.intensity),
                  IF IsDef(e.progress)
                  THEN Def([value |-> Def(Finite(Val(e.progress).value))])
                  ELSE Undefined,
                  e.side,
                  IF IsDef(e.styles)
                  THEN Def([strokeWidth |-> AsNumber(Val(e.styles).strokeWidth)])
                  ELSE Undefined)

AsValidatedData(dataProp) ==
    [dataProp EXCEPT !.items = [i \in 1..Len(dataProp.items) |->
                                   Def(AsValidatedPart(dataProp.items[i]))]]

\* colors.length: undefined on a value that is no array (and not null)
LengthOf(colors) == IF colors.isArray THEN Def(Len(colors.items)) ELSE Undefined

\* colors[i] read from the prop: undefined on a value that is no array
PaletteOf(colors) ==
    IF colors.isArray THEN [i \in 1..Len(colors.items) |-> Val(colors.items[i])] ELSE << >>

\* some merge of the render reads colors[merged.intensity - 1]: a slot of a
\* rendered asset holds an entry with an intensity and neither fill nor colour
ReadsPalette(entries, cfg) ==
    \E k \in 1..Len(FilterHidden(bodyFront, cfg)) :
        \E s \in {"both", "left", "right"} :
            LET assetPart == FilterHidden(bodyFront, cfg)[k]
                slot      == IF IsDef(assetPart.slug)
                             THEN BucketOf(userDataByBaseSlug(entries), Val(assetPart.slug))[s]
                             ELSE Undefined
            IN  /\ IsDef(slot)
                /\ ~TruthyStr(StyleFill(Val(slot).part))
                /\ ~TruthyStr(Val(slot).part.color)
                /\ TruthyNum(Val(slot).part.intensity)

\* a render that ends in a TypeError, and one that returns its Path elements
Threw(log) == [threw |-> TRUE, log |-> log, paths |-> << >>]

Completed(log, paths) == [threw |-> FALSE, log |-> log, paths |-> paths]

\* Body({data, colors}) with every other prop left out.  In a development build
\* validateColors(colors) and validateData(data, colors.length) run first, and
\* reading the length of null throws.  Then data.forEach throws unless data is an
\* array, and a merge that indexes the palette throws when it is null.
BodyOutcome(dataProp, colorsProp, dev) ==
    LET colors  == Coalesce(colorsProp, JsArray(<< Def("#0984e3"), Def("#74b9ff") >>))
        checked == validateColors(colors, dev)
        log     == checked \o validateData(AsValidatedData(dataProp), LengthOf(colors), dev)
        cfg     == Defaults([NoProps EXCEPT !.colors = Def(PaletteOf(colors))])
    IN  IF dev /\ colors.isNull THEN Threw(checked)
        ELSE IF ~dataProp.isArray THEN Threw(log)
        ELSE IF colors.isNull /\ ReadsPalette(dataProp.items, cfg) THEN Threw(log)
        ELSE Completed(log, BodyWith(dataProp.items, cfg).paths)

----------------------------------------------------------------------------
(* The validation specification: one call of a validator, or one render of  *)
(* Body, in a build with or without __DEV__.                                *)

MaxValidated == 2

\* stops on both sides of zero and at zero
ValidatedStopPool == { Stop(-50, "#ef4444"), Stop(0, "#9ca3af"), Stop(50, "#22c55e") }

\* no scale, a scale whose stops are no array, and scales of 0..MaxStops stops
ValidatedScales ==
    { Undefined,
      Def([stops |-> JsNull, interpolation |-> Undefined]),
      Def([stops |-> JsOther, interpolation |-> Undefined]),
      Def([stops |-> JsArray(DEFAULT_PROGRESS_SCALE.stops),
           interpolation |-> DEFAULT_PROGRESS_SCALE.interpolation]) }
    \cup { Def([stops |-> JsArray(s), interpolation |-> Def("linear")]) :
             s \in UNION { [1..n -> ValidatedStopPool] : n \in 0..MaxStops } }

\* parts whose numbers lie around the limits the validator tests, fractional
\* and non-finite ones included
ValidatedParts ==
    { ValidatedPart(slug, intensity, progress, side, styles) :
        slug \in { Undefined, Def(""), Def("biceps"), Def("gluteal-left"),
                   Def("abs-left"), Def("invalid slug") },
        intensity \in { Undefined, Def(Finite(0)), Def(Finite(1)), Def(Finite(MaxValidated)),
                        Def(Finite(MaxValidated + 1)), Def(HalfAbove(1)), Def(NaN) },
        progress \in { Undefined, Def([value |-> Undefined]) }
                     \cup { Def([value |-> Def(x)]) :
                              x \in { Finite(-101), Finite(-100), Finite(100), Finite(101),
                                      HalfAbove(50), HalfAbove(100), NaN, PosInfinity,
                                      NegInfinity } },
        side \in { Undefined, Def(""), Def("left"), Def("both"), Def("center") },
        styles \in { Undefined, Def([strokeWidth |-> Undefined]) }
                   \cup { Def([strokeWidth |-> Def(x)]) :
                            x \in { Finite(0), Finite(2), Finite(-1), HalfAbove(-1), NaN } } }

\* the items of a data array: a valid part, two invalid ones, and null
ValidatedItems ==
    { Undefined,
      Def(ValidatedPart(Def("biceps"), Def(Finite(1)), Undefined, Undefined, Undefined)),
      Def(ValidatedPart(Def("invalid slug"), Undefined, Undefined, Undefined, Undefined)),
      Def(ValidatedPart(Def("chest"), Def(Finite(MaxValidated + 1)), Undefined,
                        Def("center"), Undefined)) }

ValidatedArrays(pool) ==
    { JsNull, JsOther }
    \cup { JsArray(s) : s \in UNION { [1..n -> pool] : n \in 0..MaxValidated } }

\* the entries of a render: one read through the palette, one through the
\* scale, one with a fill of its own and an intensity beyond the palette
RenderedEntries ==
    { Entry(Def("biceps"), Undefined, Undefined, Undefined, Def(1), Undefined),
      Entry(Def("biceps-left"), Undefined, Undefined, Undefined, Undefined,
            Def(Progress(80, Undefined))),
      Entry(Def("chest"), Undefined, Def(Styles(Def("#fdcb6e"), Undefined, Def(2))),
            Undefined, Def(MaxValidated + 1), Undefined) }

RenderedPalettes ==
    { Undefined, Def(JsNull), Def(JsOther), Def(JsArray(<< >>)),
      Def(JsArray(<< Def("#0984e3") >>)) }

\* the arguments of one call, in a build with or without __DEV__
ValidationCalls ==
    { [fn |-> "validateColorScale", dev |-> dev, scale |-> s, result |-> Undefined] :
        dev \in BOOLEAN, s \in ValidatedScales }
    \cup { [fn |-> "validateBodyPart", dev |-> dev, part |-> p, colorsLength |-> n,
            result |-> Undefined] :
             dev \in BOOLEAN, p \in ValidatedParts, n \in {Def(MaxValidated)} }
    \cup { [fn |-> "validateData", dev |-> dev, data |-> d, colorsLength |-> n,
            result |-> Undefined] :
             dev \in BOOLEAN, d \in ValidatedArrays(ValidatedItems),
             n \in {Def(MaxValidated), Undefined} }
    \cup { [fn |-> "validateColors", dev |-> dev, colors |-> c, result |-> Undefined] :
             dev \in BOOLEAN, c \in ValidatedArrays({Def("#0984e3"), Undefined}) }
    \cup { [fn |-> "warnDeprecatedAPI", dev |-> dev, apiName |-> a, replacement |-> r,
            result |-> Undefined] :
             dev \in BOOLEAN, a \in {"colors", "intensity"}, r \in {"colorScale", "progress"} }
    \cup { [fn |-> "Body", dev |-> dev, dataProp |-> d, colorsProp |-> c, result |-> Undefined] :
             dev \in BOOLEAN, d \in ValidatedArrays(RenderedEntries), c \in RenderedPalettes }

ValidationInit ==
    /\ data = <<>>
    /\ supplied = <<>>
    /\ props = NoProps
    /\ out = <<>>
    /\ call \in ValidationCalls

ValidateColorScaleCall ==
    /\ call.fn = "validateColorScale"
    /\ call.result = Undefined
    /\ call' = [call EXCEPT !.result = Def(validateColorScale(call.scale, call.dev))]
    /\ UNCHANGED <<data, supplied, props, out>>

ValidateBodyPartCall ==
    /\ call.fn = "validateBodyPart"
    /\ call.result = Undefined
    /\ call' = [call EXCEPT !.result = Def([log |-> validateBodyPart(call.part, call.colorsLength, call.dev)])]
    /\ UNCHANGED <<data, supplied, props, out>>

ValidateDataCall ==
    /\ call.fn = "validateData"
    /\ call.result = Undefined
    /\ call' = [call EXCEPT !.result = Def([log |-> validateData(call.data, call.colorsLength, call.dev)])]
    /\ UNCHANGED <<data, supplied, props, out>>

ValidateColorsCall ==
    /\ call.fn = "validateColors"
    /\ call.result = Undefined
    /\ call' = [call EXCEPT !.result = Def([log |-> validateColors(call.colors, call.dev)])]
    /\ UNCHANGED <<data, supplied, props, out>>

WarnDeprecatedAPICall ==
    /\ call.fn = "warnDeprecatedAPI"
    /\ call.result = Undefined
    /\ call' = [call EXCEPT !.result = Def([log |-> warnDeprecatedAPI(call.apiName, call.replacement, call.dev)])]
    /\ UNCHANGED <<data, supplied, props, out>>

\* one render of Body
BodyCall ==
    /\ call.fn = "Body"
    /\ call.result = Undefined
    /\ call' = [call EXCEPT !.result = Def(BodyOutcome(call.dataProp, call.colorsProp, call.dev))]
    /\ UNCHANGED <<data, supplied, props, out>>

ValidationNext ==
    \/ ValidateColorScaleCall
    \/ ValidateBodyPartCall
    \/ ValidateDataCall
    \/ ValidateColorsCall
    \/ WarnDeprecatedAPICall
    \/ BodyCall

ValidationSpec == ValidationInit /\ [][ValidationNext]_vars





---------------------------------------------------------------------------
(* Properties of the component.                                            *)

\* the configuration of the render that produced out
Cfg == Defaults(props)

\* the positions of the caller's entries that resolve to a base slug and side
ResolvedTo(base, side) ==
    { i \in 1..Len(supplied) : Target(supplied[i]) = <<base, side>> }

\* the positions of the caller's entries that resolve to a base slug
EntriesOf(base) ==
    ResolvedTo(base, "both") \cup ResolvedTo(base, "left") \cup ResolvedTo(base, "right")

\* the assets that have paths on both sides
Bilateral ==
    { k \in 1..Len(bodyFront) :
        Len(bodyFront[k].path.left) > 0 /\ Len(bodyFront[k].path.right) > 0 }

OtherSide(side) == IF side = "left" THEN "right" ELSE "left"

\* the positions of the emitted paths of one asset and path group
PathsAt(slug, group) ==
    { k \in 1..Len(out) : out[k].id = Def(slug) /\ out[k].group = group }

\* a step in which the caller changed one entry of the given side, and nothing else
OnlyEntryOfSideChanges(side) ==
    /\ props' = props
    /\ Len(supplied') = Len(supplied)
    /\ \E i \in 1..Len(supplied) :
          /\ supplied'[i] # supplied[i]
          /\ Target(supplied[i]) # <<>>
          /\ Target(supplied'[i]) = Target(supplied[i])
          /\ Target(supplied[i])[2] = side
          /\ \A j \in 1..Len(supplied) : j # i => supplied'[j] = supplied[j]

\* the fills of one path group are the same before and after the step
GroupFillsUnchanged(group) ==
    /\ Len(out') = Len(out)
    /\ \A k \in 1..Len(out) :
          out[k].group = group =>
              /\ out'[k].id = out[k].id
              /\ out'[k].group = group
              /\ out'[k].fill = out[k].fill

C1_NonInterference ==
    /\ OnlyEntryOfSideChanges("right") => GroupFillsUnchanged("left")
    /\ OnlyEntryOfSideChanges("left") => GroupFillsUnchanged("right")

C1_LeftEntry ==
    Entry(Def("biceps-left"), Undefined, Undefined, Undefined, Undefined,
          Def(Progress(80, Undefined)))

C1_RightEntry ==
    Entry(Def("biceps-right"), Undefined, Undefined, Undefined, Undefined,
          Def(Progress(-80, Undefined)))

C1_Example ==
    ( /\ supplied \in { <<C1_LeftEntry, C1_RightEntry>>, <<C1_RightEntry, C1_LeftEntry>> }
      /\ props.colorScale = Undefined
      /\ ~Includes(Cfg.disabledParts, "biceps") )
    => /\ PathsAt("biceps", "left") # {}
       /\ PathsAt("biceps", "right") # {}
       /\ \A k \in PathsAt("biceps", "left"), l \in PathsAt("biceps", "right") :
             out[k].fill # out[l].fill

\* C1: a re-render in which the caller changed only an entry resolved to the
\* right side (its progress, intensity, color or styles) emits the same fill for
\* every left path, and symmetrically a change of a left entry leaves every right
\* path's fill alone; and with {slug: 'biceps-left', progress 80} and
\* {slug: 'biceps-right', progress -80} under the default scale (biceps not
\* disabled) the left fill of biceps differs from its right fill.
C1_SideIndependence == [][C1_NonInterference]_vars /\ []C1_Example

\* the two entries of the example are rendered, each side with its own colour
C1_Witness ==
    /\ supplied = <<C1_LeftEntry, C1_RightEntry>>
    /\ props.colorScale = Undefined
    /\ \A k \in PathsAt("biceps", "left") : out[k].fill = "#32cf6c"
    /\ \A l \in PathsAt("biceps", "right") : out[l].fill = "#f35656"
    /\ PathsAt("biceps", "left") # {} /\ PathsAt("biceps", "right") # {}

\* the only entry of the asset's base slug resolves to the given side
OnlyEntryTargets(slug, side) ==
    /\ Cardinality(EntriesOf(slug)) = 1
    /\ EntriesOf(slug) = ResolvedTo(slug, side)

\* every path of the asset outside the given side group has the default fill
UntargetedPathsDefault(slug, side) ==
    \A k \in PathsAt(slug, "common") \cup PathsAt(slug, OtherSide(side)) :
        out[k].fill = Cfg.defaultFill

\* C2 as stated: when the only user entry of a bilateral asset targets one side,
\* every path of the opposite side group and every common path of the asset is
\* drawn with defaultFill.
C2_OneSidedOriginal ==
    \A a \in Bilateral, side \in {"left", "right"} :
        OnlyEntryTargets(Val(bodyFront[a].slug), side)
            => UntargetedPathsDefault(Val(bodyFront[a].slug), side)

\* C2 amended: when the only user entry of a bilateral asset targets one side,
\* and the asset is not in disabledParts and carries no color of its own, every
\* path of the opposite side group and every common path of the asset is drawn
\* with defaultFill.
C2_OneSided ==
    \A a \in Bilateral, side \in {"left", "right"} :
        ( /\ OnlyEntryTargets(Val(bodyFront[a].slug), side)
          /\ ~Includes(Cfg.disabledParts, Val(bodyFront[a].slug))
          /\ bodyFront[a].color = Undefined )
            => UntargetedPathsDefault(Val(bodyFront[a].slug), side)

\* biceps has a left entry only: its left paths are coloured, its right and
\* common paths have the default fill
C2_Witness ==
    /\ OnlyEntryTargets("biceps", "left")
    /\ ~Includes(Cfg.disabledParts, "biceps")
    /\ PathsAt("biceps", "right") # {} /\ PathsAt("biceps", "left") # {}
    /\ \A k \in PathsAt("biceps", "left") : out[k].fill # Cfg.defaultFill
    /\ \A k \in PathsAt("biceps", "right") \cup PathsAt("biceps", "common") :
          out[k].fill = "#f5f5f5"

\* the first applicable rule of the priority list for a variant that is not
\* disabled; Undefined when no rule applies
FirstApplicable(m, cfg) ==
    IF m.slug = Def("hair") THEN Def(cfg.hairColor)
    ELSE IF m.slug \in {Def("hands"), Def("feet"), Def("head")} THEN Def(cfg.skinColor)
    ELSE IF IsDef(m.styles) /\ Val(m.styles).fill \notin {Undefined, Def("")}
    THEN Val(m.styles).fill
    ELSE IF m.color \notin {Undefined, Def("")} THEN m.color
    ELSE IF IsDef(m.intensity) /\ Val(m.intensity) > 0
    THEN (IF Val(m.intensity) <= Len(cfg.colors)
          THEN Def(cfg.colors[Val(m.intensity)]) ELSE Undefined)
    ELSE IF IsDef(m.progress)
    THEN Def(getProgressColor(Val(m.progress).value, cfg.colorScale))
    ELSE Undefined

C4_DisabledFill ==
    \A k \in 1..Len(out) :
        (IsDef(out[k].id) /\ Includes(Cfg.disabledParts, Val(out[k].id)))
            => out[k].fill = "#EBEBE4"

\* biceps and hair are disabled while the data holds an entry with an explicit
\* styles.fill, color, intensity and progress for biceps and one for hair
C4_Witness ==
    /\ Includes(Cfg.disabledParts, "biceps")
    /\ \E i \in EntriesOf("biceps") :
          /\ IsDef(supplied[i].styles) /\ IsDef(supplied[i].color)
          /\ IsDef(supplied[i].intensity) /\ IsDef(supplied[i].progress)
    /\ EntriesOf("hair") # {}
    /\ \A g \in {"common", "left", "right"} :
          /\ PathsAt("biceps", g) # {}
          /\ \A k \in PathsAt("biceps", g) : out[k].fill = "#EBEBE4"
    /\ \A k \in PathsAt("hair", "common") : out[k].fill = "#EBEBE4"

\* C5: no emitted path carries the identifier of an asset in hiddenParts.
C5_HiddenAbsent ==
    \A k \in 1..Len(out) :
        ~(IsDef(out[k].id) /\ Includes(Cfg.hiddenParts, Val(out[k].id)))

\* chest is hidden while the data holds a chest entry: paths are emitted, none
\* of them for chest or head
C5_Witness ==
    /\ Includes(Cfg.hiddenParts, "chest")
    /\ EntriesOf("chest") # {}
    /\ Len(out) > 0
    /\ \A k \in 1..Len(out) : out[k].id \notin {Def("chest"), Def("head")}

\* the position in supplied of the entry that governs a path group of an asset:
\* the last entry resolved to that side, else the last resolved to both sides;
\* 0 when there is none
LastOf(S) == IF S = {} THEN 0 ELSE CHOOSE i \in S : \A j \in S : j <= i

Governing(slug, group) ==
    IF group # "common" /\ ResolvedTo(slug, group) # {}
    THEN LastOf(ResolvedTo(slug, group))
    ELSE LastOf(ResolvedTo(slug, "both"))

\* path k is drawn from a user entry to which no rule above the progress rule
\* applies: not disabled, not hair or skin, no styles.fill, no color, no intensity
ProgressGoverned(k) ==
    /\ IsDef(out[k].onPress)
    /\ out[k].id \notin {Def("hair"), Def("hands"), Def("feet"), Def("head")}
    /\ Governing(Val(out[k].id), out[k].group) # 0
    /\ LET e == supplied[Governing(Val(out[k].id), out[k].group)]
       IN  /\ ~TruthyStr(StyleFill(e))
           /\ ~TruthyStr(e.color)
           /\ ~TruthyNum(e.intensity)
           /\ IsDef(e.progress)

GoverningProgress(k) == Val(supplied[Governing(Val(out[k].id), out[k].group)].progress)

\* C6 as stated: a path drawn from an entry whose progress carries an explicit
\* color, with no higher rule applying, is filled with that color; without an
\* explicit color it is filled with the scale color of progress.value.
C6_ProgressOverride ==
    \A k \in 1..Len(out) :
        ProgressGoverned(k) =>
            IF TruthyStr(GoverningProgress(k).color)
            THEN out[k].fill = Val(GoverningProgress(k).color)
            ELSE out[k].fill = getProgressColor(GoverningProgress(k).value, Cfg.colorScale)

\* C7 as stated: when the progressScale prop is passed, every progress-derived
\* fill is the color of the progress value on that scale.
C7_ProgressScaleProp ==
    \A k \in 1..Len(out) :
        ( /\ IsDef(props.progressScale)
          /\ ProgressGoverned(k)
          /\ ~TruthyStr(GoverningProgress(k).color) )
            => out[k].fill =
                  getProgressColor(GoverningProgress(k).value, Val(props.progressScale))

\* C20: per-part style resolution uses the per-part override or else the
\* documented default: for every merged variant the stroke is styles.stroke or
\* else defaultStroke (default 'none'), the stroke width is styles.strokeWidth or
\* else defaultStrokeWidth (default 0), and the fill falls back to styles.fill or
\* else defaultFill.
C20_PartStyles ==
    \A k \in 1..Len(out) :
        IsDef(out[k].onPress) =>
            /\ out[k].stroke =
                  Coalesce(StyleStroke(Val(out[k].onPress).part), Cfg.defaultStroke)
            /\ out[k].strokeWidth =
                  Coalesce(StyleStrokeWidth(Val(out[k].onPress).part), Cfg.defaultStrokeWidth)
            /\ FirstApplicable(Val(out[k].onPress).part, Cfg) = Undefined
                  => out[k].fill = Cfg.defaultFill

\* the asset of a slug
AssetOf(slug) == bodyFront[CHOOSE a \in 1..Len(bodyFront) : bodyFront[a].slug = Def(slug)]

\* the merged variant a path group of an asset is drawn from: the 'both' merge
\* for the common paths, the side merge on top of it for a side group
VariantOf(slug, group) ==
    IF group = "common"
    THEN mergeAssetWithUserData(AssetOf(slug),
                                BucketOf(userDataByBaseSlug(data), slug).both, Cfg)
    ELSE mergeAssetWithUserData(
             mergeAssetWithUserData(AssetOf(slug),
                                    BucketOf(userDataByBaseSlug(data), slug).both, Cfg),
             BucketOf(userDataByBaseSlug(data), slug)[group], Cfg)

\* C21: no path of an asset in disabledParts invokes onBodyPartPress, while its
\* paths are still drawn; a common path of any other asset invokes it with the
\* 'both'-merged entry and no side, a left path with the left-merged entry and
\* 'left', a right path with the right-merged entry and 'right'.
C21_Dispatch ==
    /\ \A k \in 1..Len(out) :
         IF Includes(Cfg.disabledParts, Val(out[k].id))
         THEN out[k].onPress = Undefined
         ELSE out[k].onPress =
                  Def([ part |-> VariantOf(Val(out[k].id), out[k].group),
                        side |-> IF out[k].group = "common" THEN Undefined
                                 ELSE Def(out[k].group) ])
    /\ \A a \in 1..Len(bodyFront) :
         ( /\ Includes(Cfg.disabledParts, Val(bodyFront[a].slug))
           /\ ~Includes(Cfg.hiddenParts, Val(bodyFront[a].slug)) )
         => \A g \in {"common", "left", "right"} :
                Cardinality(PathsAt(Val(bodyFront[a].slug), g)) = Len(bodyFront[a].path[g])

\* biceps is disabled and has an entry: its paths are drawn without a callback,
\* while the left path of chest calls back with the left-merged entry and 'left'
C21_Witness ==
    /\ Includes(Cfg.disabledParts, "biceps")
    /\ EntriesOf("biceps") # {}
    /\ PathsAt("biceps", "left") # {}
    /\ \A k \in PathsAt("biceps", "left") : out[k].onPress = Undefined
    /\ ResolvedTo("chest", "left") # {}
    /\ \E k \in PathsAt("chest", "left") :
          /\ IsDef(out[k].onPress)
          /\ Val(out[k].onPress).side = Def("left")
          /\ Val(out[k].onPress).part.intensity = Def(3)

\* C23: the side variants are merged on top of the 'both' merge: without an
\* entry for a side the variant of that side is the 'both' variant, and with
\* one, every field among styles, intensity, progress and color that the side
\* entry does not set keeps the value it has in the 'both' variant.
C23_Layering ==
    \A a \in Bilateral, side \in {"left", "right"} :
        \A k \in PathsAt(Val(bodyFront[a].slug), side),
           kb \in PathsAt(Val(bodyFront[a].slug), "common") :
            (IsDef(out[k].onPress) /\ IsDef(out[kb].onPress)) =>
                IF ResolvedTo(Val(bodyFront[a].slug), side) = {}
                THEN Val(out[k].onPress).part = Val(out[kb].onPress).part
                ELSE \A f \in {"styles", "intensity", "progress", "color"} :
                        supplied[LastOf(ResolvedTo(Val(bodyFront[a].slug), side))][f] = Undefined
                            => Val(out[k].onPress).part[f] = Val(out[kb].onPress).part[f]

\* the positions of data whose entry is the last one resolved to its slot
LastOfSlot ==
    { i \in 1..Len(data) :
        /\ Target(data[i]) # <<>>
        /\ \A j \in 1..Len(data) : Target(data[j]) = Target(data[i]) => j <= i }

\* data without the entries that a later entry of the same slot replaces
RECURSIVE KeepLast(_)
KeepLast(n) ==
    IF n = 0 THEN << >>
    ELSE IF n \in LastOfSlot THEN Append(KeepLast(n - 1), data[n])
    ELSE KeepLast(n - 1)

\* C24: each (base, side) slot of the buckets holds the last entry, in iteration
\* order, that resolved to that pair, and no slot holds anything else; the
\* entries before it for the same pair have no effect on any emitted fill,
\* stroke or callback payload, and the other slots are as they would be
\* without them.
C24_LastWins ==
    /\ \A base \in DOMAIN userDataByBaseSlug(data), side \in {"both", "left", "right"} :
         LET slot == userDataByBaseSlug(data)[base][side]
             last == { i \in LastOfSlot : Target(data[i]) = <<base, side>> }
         IN  IF last = {} THEN slot = Undefined
             ELSE /\ IsDef(slot)
                  /\ Val(slot).ref \in last
                  /\ Val(slot).part =
                        [data[Val(slot).ref] EXCEPT !.slug = Def(base), !.side = Def(side)]
    /\ \A i \in LastOfSlot : Target(data[i])[1] \in DOMAIN userDataByBaseSlug(data)
    /\ out = BodyWith(KeepLast(Len(data)), Cfg).paths

\* two entries for the left side of biceps: the left paths show the second one
C24_Witness ==
    /\ Len(supplied) = 2
    /\ supplied[1] # supplied[2]
    /\ Target(supplied[1]) = <<"biceps", "left">>
    /\ Target(supplied[2]) = <<"biceps", "left">>
    /\ supplied[2].progress = Def(Progress(80, Undefined))
    /\ PathsAt("biceps", "left") # {}
    /\ \A k \in PathsAt("biceps", "left") :
          out[k].fill = getProgressColor(80, Cfg.colorScale)

\* C27: a part that can be pressed, that is neither hair nor a skin part, whose
\* merged entry has no fill style and an intensity outside 1..length of the
\* palette, for which the palette lookup gave no color, is filled by the next
\* rule of the chain: the scale color of its progress value if it has one,
\* else the default fill.
C27_IntensityFallsThrough ==
    \A k \in 1..Len(out) :
        IsDef(out[k].onPress) =>
            LET m == Val(out[k].onPress).part
            IN  ( /\ m.slug # Def("hair")
                  /\ ~Includes(skinParts, Val(m.slug))
                  /\ ~TruthyStr(StyleFill(m))
                  /\ IsDef(m.intensity)
                  /\ Val(m.intensity) \notin 1..Len(Cfg.colors)
                  /\ ~TruthyStr(m.color) )
                => out[k].fill =
                       IF IsDef(m.progress)
                       THEN getProgressColor(Val(m.progress).value, Cfg.colorScale)
                       ELSE Cfg.defaultFill

\* the identifier, group and geometry of the paths of one group of an asset
GeometryOfGroup(a, group) ==
    [ k \in 1..Len(bodyFront[a].path[group]) |->
        [id |-> bodyFront[a].slug, group |-> group, d |-> bodyFront[a].path[group][k]] ]

\* the paths of the first n assets that are not hidden: common, left, right
RECURSIVE GeometryUpTo(_)
GeometryUpTo(n) ==
    IF n = 0 THEN << >>
    ELSE GeometryUpTo(n - 1)
         \o ( IF Includes(Cfg.hiddenParts, Val(bodyFront[n].slug)) THEN << >>
              ELSE GeometryOfGroup(n, "common") \o GeometryOfGroup(n, "left")
                   \o GeometryOfGroup(n, "right") )

\* C28: the emitted paths are, for each asset that is not hidden, in the order
\* of the assets, all its common paths, then all its left paths, then all its
\* right paths, each in the asset's own order and with the asset's base
\* identifier; the sequence is decided by the assets and the hidden list alone,
\* so user data, the disabled list and the colors never change which paths are
\* emitted, their geometry or their order.
C28_PathOrder ==
    [ k \in 1..Len(out) |-> [id |-> out[k].id, group |-> out[k].group, d |-> out[k].d] ]
        = GeometryUpTo(Len(bodyFront))

\* user entries for both sides of biceps, a disabled list and a hidden list:
\* hair, then the common, left and right paths of biceps
C28_Witness ==
    /\ Len(supplied) = 2
    /\ ResolvedTo("biceps", "left") # {}
    /\ ResolvedTo("biceps", "right") # {}
    /\ Cfg.disabledParts = <<"biceps", "hair">>
    /\ Cfg.hiddenParts = <<"chest", "head">>
    /\ [ k \in 1..Len(out) |-> out[k].d ]
           = <<"M-hair", "M-biceps", "M-biceps-l", "M-biceps-r">>

\* C29: a render has no effect on its inputs: after any render every entry the
\* caller supplied, its nested progress and styles records included, is as the
\* caller wrote it; the derived progress color is attached to the merged
\* records of the render only.
C29_InputsUnchanged ==
    /\ Len(data) = Len(supplied)
    /\ \A i \in 1..Len(supplied) : data[i] = supplied[i]

\* C30: no state is carried from one render to the next: after any sequence of
\* renders in which the caller changes some inputs and keeps the others, every
\* fill, stroke, stroke width and merged entry handed to onBodyPartPress, its
\* attached progress.color included, equals that of a first render of the
\* entries the caller wrote with the current props.
C30_NoCrossInvocationState ==
    out = Body(supplied, props).paths

---------------------------------------------------------------------------
(* Properties of getProgressColor.                                         *)

DistinctValues(stops) ==
    \A i, j \in 1..Len(stops) : i # j => stops[i].value # stops[j].value

\* C8 as stated: on a scale of at least 2 stops of pairwise distinct values, a
\* call with the value of a stop returns that stop's color exactly.
C8_ExactStopOriginal ==
    ( /\ Returned
      /\ Len(call.scale.stops) >= 2
      /\ DistinctValues(call.scale.stops) )
    => \A i \in 1..Len(call.scale.stops) :
          call.scale.stops[i].value = call.value
              => Val(call.result) = call.scale.stops[i].color

\* C8 amended: on a scale of at least 2 stops of pairwise distinct values, a call
\* with the value of a stop that lies within -100..100 returns that stop's color
\* exactly, in either interpolation mode; on the default scale -100 gives
\* '#ef4444', 0 gives '#9ca3af' and 100 gives '#22c55e'.
C8_ExactStop ==
    /\ ( /\ Returned
         /\ Len(call.scale.stops) >= 2
         /\ DistinctValues(call.scale.stops) )
       => \A i \in 1..Len(call.scale.stops) :
             ( /\ call.scale.stops[i].value = call.value
               /\ call.value >= -100 /\ call.value <= 100 )
                 => Val(call.result) = call.scale.stops[i].color
    /\ (Returned /\ call.scale = DEFAULT_PROGRESS_SCALE) =>
          /\ call.value = -100 => call.result = Def("#ef4444")
          /\ call.value = 0 => call.result = Def("#9ca3af")
          /\ call.value = 100 => call.result = Def("#22c55e")

\* step mode, stops given out of order: the value of the upper stop returns the
\* upper stop's color as written
C8_Witness ==
    /\ Returned
    /\ call.scale = [stops |-> <<Stop(0, "#9CA3AF"), Stop(-100, "#ef4444")>>,
                     interpolation |-> Def("step")]
    /\ call.value = 0
    /\ call.result = Def("#9CA3AF")

\* C9: getProgressColor(v, scale) = getProgressColor(clamp(v, -100, 100), scale)
\* for every value and scale: a value below -100 gives the result for -100 and a
\* value above 100 the result for 100.
C9_ClampIdempotent ==
    Returned =>
        /\ call.value < -100 => Val(call.result) = getProgressColor(-100, call.scale)
        /\ call.value > 100 => Val(call.result) = getProgressColor(100, call.scale)

\* a value below -100 on a scale whose lowest stop is above -100
C9_Witness ==
    /\ Returned
    /\ call.value < -100
    /\ call.scale = [stops |-> <<Stop(0, "#ffffff"), Stop(150, "#22c55e")>>,
                     interpolation |-> Def("linear")]
    /\ call.result = Def(getProgressColor(-100, call.scale))

LowerHexDigit(ch) == \E d \in 1..16 : SubSeq(HexDigits, d, d) = ch

\* text is '#' and six lower-case hexadecimal digits
WellFormedHex(text) ==
    /\ Len(text) = 7
    /\ SubSeq(text, 1, 1) = "#"
    /\ \A i \in 2..7 : LowerHexDigit(SubSeq(text, i, i))

\* n is x rounded to the nearest integer (ties upwards) for x = c1 + (c2 - c1) * num / den
IsRounded(n, c1, c2, num, den) ==
    /\ 2 * den * n - den <= 2 * (c1 * den + (c2 - c1) * num)
    /\ 2 * (c1 * den + (c2 - c1) * num) < 2 * den * n + den

\* the channel of a '#rrggbb' text that starts at 1-based position pos
ChannelAt(text, pos) == ParseHex(SubSeq(text, pos, pos + 1))

ChannelInterpolated(text, lower, upper, v, pos) ==
    /\ IsRounded(ChannelAt(text, pos), ChannelAt(lower.color, pos),
                 ChannelAt(upper.color, pos),
                 v - lower.value, upper.value - lower.value)
    /\ ChannelAt(text, pos) >= Min(ChannelAt(lower.color, pos), ChannelAt(upper.color, pos))
    /\ ChannelAt(text, pos) <= Max(ChannelAt(lower.color, pos), ChannelAt(upper.color, pos))

\* C10: under linear interpolation, a clamped value strictly between two adjacent
\* sorted stops returns '#' and three two-digit lower-case hex channels, each
\* round(cL + (cU - cL) * (v - lower.value) / (upper.value - lower.value)) and so
\* between the channels of the two stops; getProgressColor(25, default scale) is
\* well-formed and differs from '#9ca3af' and from '#4ade80'.
C10_LinearChannels ==
    /\ (Returned /\ call.scale.interpolation # Def("step")) =>
          LET sorted == SortStops(call.scale.stops)
              v      == IF call.value < -100 THEN -100
                        ELSE IF call.value > 100 THEN 100 ELSE call.value
          IN  \A i \in 1..(Len(sorted) - 1) :
                  (sorted[i].value < v /\ v < sorted[i + 1].value) =>
                      /\ WellFormedHex(Val(call.result))
                      /\ \A pos \in {2, 4, 6} :
                            ChannelInterpolated(Val(call.result), sorted[i],
                                                sorted[i + 1], v, pos)
    /\ (Returned /\ call.value = 25 /\ call.scale = DEFAULT_PROGRESS_SCALE) =>
          /\ WellFormedHex(Val(call.result))
          /\ Val(call.result) \notin {"#9ca3af", "#4ade80"}

\* 25 on the default scale, halfway between the stops of 0 and 50
C10_Witness ==
    /\ Returned
    /\ call.value = 25
    /\ call.scale = DEFAULT_PROGRESS_SCALE
    /\ call.result = Def("#73c198")

\* the value of a call after clamping to -100..100
ClampedCallValue ==
    IF call.value < -100 THEN -100 ELSE IF call.value > 100 THEN 100 ELSE call.value

\* under step interpolation the result is the colour of every adjacent sorted
\* pair's lower stop whose interval [lower.value, upper.value) holds the value
StepKeepsLower ==
    (Returned /\ call.scale.interpolation = Def("step")) =>
        \A i \in 1..(Len(call.scale.stops) - 1) :
            ( /\ SortStops(call.scale.stops)[i].value <= ClampedCallValue
              /\ ClampedCallValue < SortStops(call.scale.stops)[i + 1].value )
                => Val(call.result) = SortStops(call.scale.stops)[i].color

\* C11 as stated: under step interpolation, a clamped value v with
\* lower.value <= v < upper.value for adjacent sorted stops returns lower.color
\* unchanged, on every scale.
C11_StepOriginal == StepKeepsLower

\* C11 amended: on a scale whose stop values are pairwise distinct, under step
\* interpolation a clamped value v with lower.value <= v < upper.value for
\* adjacent sorted stops returns lower.color unchanged; with stops -100/0/100 the
\* value 50 returns the color of the 0 stop.
C11_Step ==
    /\ DistinctValues(call.scale.stops) => StepKeepsLower
    /\ ( /\ Returned
         /\ call.scale = [README_SCALE EXCEPT !.interpolation = Def("step")]
         /\ call.value = 50 )
       => call.result = Def("#ffffff")

\* a value inside a step interval of a scale given out of order
C11_Witness ==
    /\ Returned
    /\ call.scale = [stops |-> <<Stop(150, "#22c55e"), Stop(0, "#9CA3AF"), Stop(-100, "#ef4444")>>,
                     interpolation |-> Def("step")]
    /\ call.value = 99
    /\ call.result = Def("#9CA3AF")

HexDigitOfEitherCase(ch) ==
    \E d \in 1..16 : SubSeq(HexDigits, d, d) = ch \/ SubSeq(HexDigitsUpper, d, d) = ch

\* text is '#' and six hexadecimal digits of either case
ValidColor(text) ==
    /\ Len(text) = 7
    /\ SubSeq(text, 1, 1) = "#"
    /\ \A i \in 2..7 : HexDigitOfEitherCase(SubSeq(text, i, i))

\* C12: for every progress value, the non-finite ones included, and every scale
\* of at least 2 stops with 6-digit hex colours, getProgressColor returns a
\* well-formed '#rrggbb' string.
C12_ValidColor ==
    (Returned /\ Len(call.scale.stops) >= 2) => ValidColor(Val(call.result))

\* C25: when the clamped value lies below the lowest stop value or above the
\* highest stop value of a scale of at least 2 stops of pairwise distinct
\* values, getProgressColor returns
\* the color of the nearest end stop, the lowest stop's below the span and the
\* highest stop's above it, in linear and in step mode, without extrapolating.
C25_NearestEndStop ==
    (Returned /\ Len(call.scale.stops) >= 2 /\ DistinctValues(call.scale.stops)) =>
        LET sorted == SortStops(call.scale.stops)
        IN  /\ ClampedCallValue < sorted[1].value
                => Val(call.result) = sorted[1].color
            /\ ClampedCallValue > sorted[Len(sorted)].value
                => Val(call.result) = sorted[Len(sorted)].color

\* C26: whenever the lower and the upper stop selected for a call have equal
\* values, getProgressColor returns the lower stop's color for every input
\* value, and no factor is computed from a range of zero.
C26_ZeroRangeGuarded ==
    (Returned /\ Len(call.scale.stops) >= 2) =>
        LET sorted  == SortStops(call.scale.stops)
            bracket == Bracket(ClampedCallValue, sorted)
        IN  bracket.lowerStop.value = bracket.upperStop.value
                => /\ Val(call.result) = bracket.lowerStop.color
                   /\ ValidColor(Val(call.result))

----------------------------------------------------------------------------
(* Properties of parseMuscleSlug and isValidSlug.                          *)

Parsed == call.fn = "parseMuscleSlug" /\ IsDef(call.result)

\* C13: for every string s, parseMuscleSlug(s) is {base: s without its last 5
\* characters, side: 'left'} if s ends with '-left'; else {base: s without its
\* last 6 characters, side: 'right'} if s ends with '-right'; else {base: s,
\* side: undefined}; the suffix is looked for at the end of the string only, so
\* 'lower-back' is returned unchanged with no side.
C13_ParseSlug ==
    /\ Parsed =>
         IF \E k \in 0..Len(call.slug) : SubSeq(call.slug, 1, k) \o "-left" = call.slug
         THEN /\ Val(call.result).side = Def("left")
              /\ Len(Val(call.result).base) = Len(call.slug) - 5
              /\ Val(call.result).base \o "-left" = call.slug
         ELSE IF \E k \in 0..Len(call.slug) : SubSeq(call.slug, 1, k) \o "-right" = call.slug
         THEN /\ Val(call.result).side = Def("right")
              /\ Len(Val(call.result).base) = Len(call.slug) - 6
              /\ Val(call.result).base \o "-right" = call.slug
         ELSE Val(call.result) = [base |-> call.slug, side |-> Undefined]
    /\ (Parsed /\ call.slug = "lower-back")
         => Val(call.result) = [base |-> "lower-back", side |-> Undefined]
    /\ (Parsed /\ call.slug = "biceps-left")
         => Val(call.result) = [base |-> "biceps", side |-> Def("left")]
    /\ (Parsed /\ call.slug = "")
         => Val(call.result) = [base |-> "", side |-> Undefined]

\* a slug that holds '-left' without ending in it is parsed by its real ending
C13_Witness ==
    /\ Parsed
    /\ call.slug = "biceps-left-right"
    /\ Val(call.result) = [base |-> "biceps-left", side |-> Def("right")]

\* C22: for every string s, hasSideSuffix(s) is true exactly when
\* parseMuscleSlug(s).side is defined, getBaseMuscle(s) is parseMuscleSlug(s).base,
\* and when the side is defined base + '-' + side is s again: one trailing suffix
\* is stripped and no more.
C22_SlugHelpers ==
    /\ (call.fn = "hasSideSuffix" /\ IsDef(call.result))
         => (Val(call.result) = TRUE <=> IsDef(parseMuscleSlug(call.slug).side))
    /\ (call.fn = "getBaseMuscle" /\ IsDef(call.result))
         => /\ Val(call.result) = parseMuscleSlug(call.slug).base
            /\ IsDef(parseMuscleSlug(call.slug).side)
                 => Val(call.result) \o "-" \o Val(parseMuscleSlug(call.slug).side) = call.slug
    /\ Parsed
         => ( IsDef(Val(call.result).side)
                => Val(call.result).base \o "-" \o Val(Val(call.result).side) = call.slug )

\* a slug with two suffixes has a suffix, and its base keeps the inner one
C22_Witness ==
    \/ /\ call.fn = "hasSideSuffix"
       /\ call.slug = "biceps-left-right"
       /\ call.result = Def(TRUE)
    \/ /\ call.fn = "getBaseMuscle"
       /\ call.slug = "biceps-left-right"
       /\ call.result = Def("biceps-left")

Validated == call.fn = "isValidSlug" /\ IsDef(call.result)

BaseSlugs ==
    { "abs", "adductors", "ankles", "biceps", "calves", "chest", "deltoids",
      "feet", "forearm", "gluteal", "hamstring", "hands", "hair", "head",
      "knees", "lower-back", "neck", "obliques", "quadriceps", "tibialis",
      "trapezius", "triceps", "upper-back" }

BilateralSlugs ==
    { "biceps", "calves", "deltoids", "forearm", "gluteal", "hamstring",
      "quadriceps", "triceps" }

\* C16: isValidSlug(s) is true exactly when s is one of the 23 base slugs, or
\* b + '-left' or b + '-right' for one of the 8 bilateral slugs b; it is false
\* for every other string, '', 'left-bicep' and 'abs-left' included.
C16_ValidSlug ==
    /\ Len(VALID_BASE_SLUGS) = 23
    /\ Len(VALID_BILATERAL_BASE_SLUGS) = 8
    /\ Validated =>
         ( Val(call.result) = TRUE <=>
             \/ call.slug \in BaseSlugs
             \/ \E b \in BilateralSlugs :
                    call.slug = b \o "-left" \/ call.slug = b \o "-right" )
    /\ (Validated /\ call.slug \in {"", "left-bicep", "abs-left"})
         => Val(call.result) = FALSE

\* a suffixed slug of a base that has no sides is rejected
C16_Witness ==
    /\ Validated
    /\ call.slug = "abs-left"
    /\ Val(call.result) = FALSE

----------------------------------------------------------------------------
(* Properties of the side buckets.                                         *)

BucketsBuilt == call.fn = "userDataByBaseSlug" /\ IsDef(call.result)

\* the side the claim gives an entry: the suffix side, else the side field, else both
EffectiveSideOf(e) ==
    IF IsDef(parseMuscleSlug(Val(e.slug)).side) THEN Val(parseMuscleSlug(Val(e.slug)).side)
    ELSE IF IsDef(e.side) THEN Val(e.side)
    ELSE "both"

\* the entries of the call with a non-empty slug
Slugged == { i \in 1..Len(call.data) : TruthyStr(call.data[i].slug) }

SameSlot(i, j) ==
    /\ parseMuscleSlug(Val(call.data[i].slug)).base = parseMuscleSlug(Val(call.data[j].slug)).base
    /\ EffectiveSideOf(call.data[i]) = EffectiveSideOf(call.data[j])

\* C14: every user entry with a non-empty slug is stored under the base the slug
\* parser returns, in the slot of its effective side (suffix side, else side
\* field, else 'both'), with its slug normalized to the base and its side set to
\* the effective side (a later entry of the same slot replaces it); a suffix
\* wins over the side field: {slug:'biceps-left', side:'right'} lands in the left
\* slot of 'biceps'.
C14_Buckets ==
    BucketsBuilt =>
        /\ \A i \in Slugged :
             LET e    == call.data[i]
                 base == parseMuscleSlug(Val(e.slug)).base
                 last == CHOOSE j \in Slugged :
                            /\ SameSlot(i, j)
                            /\ \A k \in Slugged : SameSlot(i, k) => k <= j
             IN  /\ base \in DOMAIN Val(call.result)
                 /\ Val(call.result)[base][EffectiveSideOf(e)] =
                        Def([ ref  |-> last,
                              part |-> [call.data[last] EXCEPT
                                           !.slug = Def(base),
                                           !.side = Def(EffectiveSideOf(e))] ])
        /\ \A i \in Slugged :
             ( /\ call.data[i].slug = Def("biceps-left")
               /\ call.data[i].side = Def("right") )
                => /\ IsDef(Val(call.result)["biceps"].left)
                   /\ Val(Val(call.result)["biceps"].left).part.side = Def("left")

\* the entry {slug:'biceps-left', side:'right'} alone: it fills the left slot
\* and leaves the right one empty
C14_Witness ==
    /\ BucketsBuilt
    /\ Len(call.data) = 1
    /\ call.data[1].slug = Def("biceps-left")
    /\ call.data[1].side = Def("right")
    /\ IsDef(Val(call.result)["biceps"].left)
    /\ Val(call.result)["biceps"].right = Undefined

----------------------------------------------------------------------------
(* Properties of the validators.                                           *)

ScaleValidated == call.fn = "validateColorScale" /\ IsDef(call.result)

\* the scale is missing, its stops are no array, or there are fewer than 2
Rejected ==
    \/ call.scale = Undefined
    \/ ~Val(call.scale).stops.isArray
    \/ Len(Val(call.scale).stops.items) < 2

\* the stop values include a negative and a positive one
SpansZero ==
    /\ \E i \in 1..Len(Val(call.scale).stops.items) : Val(call.scale).stops.items[i].value < 0
    /\ \E i \in 1..Len(Val(call.scale).stops.items) : Val(call.scale).stops.items[i].value > 0

HasLevel(log, level) == \E i \in 1..Len(log) : log[i].level = level

\* the diagnostics of the claim: an error exactly when the scale is rejected, a
\* warning exactly when it passes without spanning zero
ScaleDiagnosed ==
    /\ HasLevel(Val(call.result).log, "error") <=> Rejected
    /\ HasLevel(Val(call.result).log, "warn") <=> (~Rejected /\ ~SpansZero)

\* C15 as stated: validateColorScale returns false with an error diagnostic
\* exactly when the scale is missing, its stops are no sequence or fewer than 2,
\* returns true otherwise, and warns exactly when the stop values do not include
\* both a negative and a positive value, in every build.
C15_ValidateScaleOriginal ==
    ScaleValidated =>
        /\ Val(call.result).ret = ~Rejected
        /\ ScaleDiagnosed

\* C15 amended: validateColorScale returns false exactly when the scale is
\* missing, its stops are no sequence or fewer than 2, and true otherwise; in a
\* development build it gives an error diagnostic exactly when it returns false
\* and a warning exactly when it returns true and the stop values do not include
\* both a negative and a positive value; the default scale passes with no
\* diagnostic.
C15_ValidateScale ==
    /\ ScaleValidated => Val(call.result).ret = ~Rejected
    /\ (ScaleValidated /\ call.dev) => ScaleDiagnosed
    /\ ( /\ ScaleValidated
         /\ call.scale = Def([stops |-> JsArray(DEFAULT_PROGRESS_SCALE.stops),
                              interpolation |-> DEFAULT_PROGRESS_SCALE.interpolation]) )
       => Val(call.result) = [ret |-> TRUE, log |-> << >>]

\* a scale of positive and zero stops only passes with a warning
C15_Witness ==
    /\ ScaleValidated
    /\ call.dev
    /\ ~Rejected
    /\ \A i \in 1..Len(Val(call.scale).stops.items) :
           Val(call.scale).stops.items[i].value >= 0
    /\ \E i \in 1..Len(Val(call.scale).stops.items) :
           Val(call.scale).stops.items[i].value > 0
    /\ Val(call.result).ret = TRUE
    /\ HasLevel(Val(call.result).log, "warn")
    /\ ~HasLevel(Val(call.result).log, "error")

PartValidated == call.fn = "validateBodyPart" /\ IsDef(call.result)

\* the conditions of the claim on the part of the call; a part without a slug
\* is not held against the first one
SlugIsValid ==
    \/ call.part.slug = Undefined
    \/ Val(call.part.slug) \in BaseSlugs
    \/ \E b \in BilateralSlugs :
           Val(call.part.slug) = b \o "-left" \/ Val(call.part.slug) = b \o "-right"

IntensityIsValid ==
    \/ call.part.intensity = Undefined
    \/ /\ Val(call.part.intensity).kind = "finite"
       /\ Val(call.part.intensity).n >= 1
       /\ IsDef(call.colorsLength)
       /\ Val(call.part.intensity).n <= Val(call.colorsLength)

\* n + 1/2 lies in [-100, 100] when n lies in -100..99
ProgressIsValid ==
    \/ call.part.progress = Undefined
    \/ Val(call.part.progress).value = Undefined
    \/ /\ Val(Val(call.part.progress).value).kind = "finite"
       /\ Val(Val(call.part.progress).value).n \in -100..100
    \/ /\ Val(Val(call.part.progress).value).kind = "half"
       /\ Val(Val(call.part.progress).value).n \in -100..99

SideIsValid ==
    \/ call.part.side = Undefined
    \/ Val(call.part.side) \in {"left", "right", "both"}

\* n + 1/2 >= 0 when n >= 0; NaN is not >= 0
StrokeWidthIsValid ==
    \/ call.part.styles = Undefined
    \/ Val(call.part.styles).strokeWidth = Undefined
    \/ /\ Val(Val(call.part.styles).strokeWidth).kind \in {"finite", "half"}
       /\ Val(Val(call.part.styles).strokeWidth).n >= 0
    \/ Val(Val(call.part.styles).strokeWidth).kind = "Infinity"

\* C17: in a development build validateBodyPart emits no warning when the slug
\* is valid, the intensity (if given) is an integer in [1, colorsLength], the
\* progress value (if given) is finite and in [-100, 100], the side (if given)
\* is left, right or both and the stroke width (if given) is >= 0; and it emits
\* at least one warning whenever one of these conditions is violated.
C17_ValidatePart ==
    (PartValidated /\ call.dev) =>
        ( Val(call.result).log = << >>
            <=> /\ SlugIsValid
                /\ IntensityIsValid
                /\ ProgressIsValid
                /\ SideIsValid
                /\ StrokeWidthIsValid )

Rendered == call.fn = "Body" /\ IsDef(call.result)

\* C18: diagnostics are advisory only: for every input the draw instructions of
\* a render and the return value of validateColorScale are the same with the
\* development-mode flag on and off, and with the flag off no validator
\* (validateBodyPart, validateData, validateColors, validateColorScale,
\* warnDeprecatedAPI) emits a diagnostic.
C18_Advisory ==
    /\ Rendered =>
         /\ Val(call.result).threw =
                BodyOutcome(call.dataProp, call.colorsProp, ~call.dev).threw
         /\ Val(call.result).paths =
                BodyOutcome(call.dataProp, call.colorsProp, ~call.dev).paths
    /\ ScaleValidated =>
         Val(call.result).ret = validateColorScale(call.scale, ~call.dev).ret
    /\ ( /\ call.fn \in { "validateBodyPart", "validateData", "validateColors",
                          "validateColorScale", "warnDeprecatedAPI" }
         /\ IsDef(call.result)
         /\ ~call.dev )
       => Val(call.result).log = << >>

\* C19: when the data prop or the colors prop of a render is not a sequence,
\* the render raises no error, an error-level diagnostic is emitted in
\* development mode, and the render completes; with data that is no sequence
\* every visible asset is drawn in its default appearance.
C19_MalformedCollection ==
    ( /\ Rendered
      /\ \/ ~call.dataProp.isArray
         \/ IsDef(call.colorsProp) /\ ~Val(call.colorsProp).isArray )
    => /\ ~Val(call.result).threw
       /\ call.dev => HasLevel(Val(call.result).log, "error")
       /\ ~call.dataProp.isArray
            => Val(call.result).paths = BodyWith(<< >>, Defaults(NoProps)).paths

====
